---- MODULE Spec2Model ----
(***************************************************************************)
(* A model of bass: the in-memory generic resource repository (MemRepo),   *)
(* the type registry (getResourceTypeDefinition) and the HTTP handlers     *)
(* that create, read, list, replace, patch and delete resources.           *)
(*                                                                         *)
(* Every request is served by its own goroutine (net/http); a worker of    *)
(* the model is one such goroutine, and a step of a worker is one access   *)
(* to the shared state (the backing map, the mutex, the clock) together    *)
(* with the local computation that follows it.                             *)
(***************************************************************************)
EXTENDS Integers, Sequences, FiniteSets, TLC

(***************************************************************************)
(* Bounds of the model.                                                    *)
(***************************************************************************)
\* number of requests that can be in flight at once
NumWorkers == 2
\* the clock runs from 1 to MaxTime
MaxTime == 2
\* number of uids uuid.NewString() hands out in one behaviour
MaxUid == 4

Workers == 1..NumWorkers

(***************************************************************************)
(* JSON values.  A value is a record [t, v]: t is the JSON type, v the     *)
(* content.  Numbers are kept as their literal, strings that hold an       *)
(* RFC 3339 timestamp are kept as the instant they denote (t = "time").    *)
(* Objects are functions from member names to values, arrays sequences.    *)
(***************************************************************************)
JNull == [t |-> "null", v |-> "null"]
JStr(s) == [t |-> "str", v |-> s]
JNum(lit) == [t |-> "num", v |-> lit]
JBool(b) == [t |-> "bool", v |-> b]
JTime(n) == [t |-> "time", v |-> n]
JObj(f) == [t |-> "obj", v |-> f]
JArr(s) == [t |-> "arr", v |-> s]
EmptyMap == <<>>

\* the text of a timestamp, when a timestamp is read as a plain string
TimeStr(n) == <<"0001-01-01T00:00:00Z", "T1", "T2", "T3", "T4">>[n + 1]

\* float64(n) of a JSON number literal: an integer above 2^53 is rounded to
\* the nearest representable value (ties to even)
Float64(lit) == IF lit = "9007199254740993" THEN "9007199254740992" ELSE lit

\* a JSON value decoded into Go's `any` (numbers become float64) and encoded again
RECURSIVE DecodeAny(_)
DecodeAny(j) ==
    CASE j.t = "num" -> JNum(Float64(j.v))
      [] j.t = "obj" -> JObj([k \in DOMAIN j.v |-> DecodeAny(j.v[k])])
      [] j.t = "arr" -> JArr([i \in DOMAIN j.v |-> DecodeAny(j.v[i])])
      [] OTHER -> j

(***************************************************************************)
(* Metadata and Resource (metadata.go, resource.go).  The zero time.Time   *)
(* is 0, the empty string the zero string.                                 *)
(***************************************************************************)
ZeroMetadata ==
    [uid |-> "", packageName |-> "", apiVersion |-> "", resourceType |-> "",
     name |-> "", createdAt |-> 0, updatedAt |-> 0]

StringFields == {"uid", "packageName", "apiVersion", "resourceType", "name"}
TimeFields == {"createdAt", "updatedAt"}

\* a nil *Resource
NilResource == [nil |-> TRUE]
IsNil(r) == "nil" \in DOMAIN r

\* json.Marshal of a Metadata: every field is written, none is omitted
MarshalMetadata(m) ==
    JObj([f \in StringFields \cup TimeFields |->
            IF f \in TimeFields THEN JTime(m[f]) ELSE JStr(m[f])])

\* json.Marshal of a Resource: the member "metadata" and, inline, the properties
Marshal(r) ==
    JObj(("metadata" :> MarshalMetadata(r.metadata)) @@ r.properties)

\* can the JSON value j be unmarshalled into a Go string / a time.Time
StringOk(j) == j.t \in {"str", "time", "null"}
TimeOk(j) == j.t \in {"time", "null"}
StringOf(j) == CASE j.t = "str" -> j.v [] j.t = "time" -> TimeStr(j.v) [] OTHER -> ""
TimeOf(j) == IF j.t = "time" THEN j.v ELSE 0

\* can the member "metadata" of a document be unmarshalled into a Metadata
MetadataOk(j) ==
    \/ j.t = "null"
    \/ /\ j.t = "obj"
       /\ \A f \in DOMAIN j.v :
            /\ f \in StringFields => StringOk(j.v[f])
            /\ f \in TimeFields => TimeOk(j.v[f])

\* json.Unmarshal into a Metadata: absent fields stay zero, unknown ones are ignored
UnmarshalMetadata(j) ==
    IF j.t = "null" THEN ZeroMetadata
    ELSE [f \in StringFields \cup TimeFields |->
            IF f \in DOMAIN j.v
            THEN (IF f \in TimeFields THEN TimeOf(j.v[f]) ELSE StringOf(j.v[f]))
            ELSE ZeroMetadata[f]]

\* json.Unmarshal of a document into a Resource succeeds
UnmarshalOk(doc) ==
    /\ doc.t = "obj"
    /\ "metadata" \in DOMAIN doc.v => MetadataOk(doc.v["metadata"])

\* json.Unmarshal of a document into a Resource: "metadata" goes to Metadata,
\* every other member to the inline Properties map (decoded as `any`)
Unmarshal(doc) ==
    [metadata |-> IF "metadata" \in DOMAIN doc.v
                  THEN UnmarshalMetadata(doc.v["metadata"])
                  ELSE ZeroMetadata,
     properties |-> [k \in DOMAIN doc.v \ {"metadata"} |-> DecodeAny(doc.v[k])]]

(***************************************************************************)
(* JSON Pointer (RFC 6901) over objects.  A pointer is the sequence of its *)
(* reference tokens; the tokens of the model's patches are member names.   *)
(***************************************************************************)
Front(p) == SubSeq(p, 1, Len(p) - 1)
Last(p) == p[Len(p)]

RECURSIVE HasPath(_, _)
HasPath(d, p) ==
    IF p = <<>> THEN TRUE
    ELSE /\ d.t = "obj"
         /\ Head(p) \in DOMAIN d.v
         /\ HasPath(d.v[Head(p)], Tail(p))

RECURSIVE GetPath(_, _)
GetPath(d, p) == IF p = <<>> THEN d ELSE GetPath(d.v[Head(p)], Tail(p))

\* the document with the member at p set to val (the parent of p is an object)
RECURSIVE SetPath(_, _, _)
SetPath(d, p, val) ==
    IF Len(p) = 1
    THEN JObj((Head(p) :> val) @@ d.v)
    ELSE JObj((Head(p) :> SetPath(d.v[Head(p)], Tail(p), val)) @@ d.v)

\* the document without the member at p (which exists)
RECURSIVE DelPath(_, _)
DelPath(d, p) ==
    IF Len(p) = 1
    THEN JObj([k \in DOMAIN d.v \ {Head(p)} |-> d.v[k]])
    ELSE JObj((Head(p) :> DelPath(d.v[Head(p)], Tail(p))) @@ d.v)

\* the container of p exists and is an object
HasParent(d, p) ==
    /\ p # <<>>
    /\ HasPath(d, Front(p))
    /\ GetPath(d, Front(p)).t = "obj"

(***************************************************************************)
(* jsonpatch.Patch.Apply (RFC 6902): the operations are applied in order,  *)
(* each to the document the earlier ones produced; the first operation     *)
(* that does not apply fails the whole patch.                              *)
(***************************************************************************)
Op(kind, path, from, value) == [op |-> kind, path |-> path, from |-> from, value |-> value]
OpAdd(path, value) == Op("add", path, <<>>, value)
OpRemove(path) == Op("remove", path, <<>>, JNull)
OpReplace(path, value) == Op("replace", path, <<>>, value)
OpMove(from, path) == Op("move", path, from, JNull)
OpCopy(from, path) == Op("copy", path, from, JNull)
OpTest(path, value) == Op("test", path, <<>>, value)

\* does operation o apply to document d
OpApplies(d, o) ==
    CASE o.op = "add" -> HasParent(d, o.path)
      [] o.op = "remove" -> o.path # <<>> /\ HasPath(d, o.path)
      [] o.op = "replace" -> o.path # <<>> /\ HasPath(d, o.path)
      [] o.op = "move" -> /\ o.from # <<>> /\ HasPath(d, o.from)
                          /\ HasParent(DelPath(d, o.from), o.path)
      [] o.op = "copy" -> HasPath(d, o.from) /\ HasParent(d, o.path)
      [] o.op = "test" -> HasPath(d, o.path) /\ GetPath(d, o.path) = o.value
      [] OTHER -> FALSE

\* the document after operation o (which applies)
ApplyOp(d, o) ==
    CASE o.op = "add" -> SetPath(d, o.path, o.value)
      [] o.op = "remove" -> DelPath(d, o.path)
      [] o.op = "replace" -> SetPath(d, o.path, o.value)
      [] o.op = "move" -> SetPath(DelPath(d, o.from), o.path, GetPath(d, o.from))
      [] o.op = "copy" -> SetPath(d, o.path, GetPath(d, o.from))
      [] OTHER -> d

\* ApplyPatch, were an operation that does not apply skipped and the rest applied
RECURSIVE ApplyPatchLenient(_, _)
ApplyPatchLenient(d, ops) ==
    IF ops = <<>> THEN [ok |-> TRUE, doc |-> d]
    ELSE IF OpApplies(d, Head(ops))
         THEN ApplyPatchLenient(ApplyOp(d, Head(ops)), Tail(ops))
         ELSE ApplyPatchLenient(d, Tail(ops))

\* ApplyPatch, were the operations applied from the last to the first
RECURSIVE ApplyPatchReverse(_, _)
ApplyPatchReverse(d, ops) ==
    IF ops = <<>> THEN [ok |-> TRUE, doc |-> d]
    ELSE LET rest == ApplyPatchReverse(d, Tail(ops))
         IN IF rest.ok /\ OpApplies(rest.doc, Head(ops))
            THEN [ok |-> TRUE, doc |-> ApplyOp(rest.doc, Head(ops))]
            ELSE [ok |-> FALSE, doc |-> d]

\* patch.Apply(original): [ok |-> TRUE, doc |-> modified] or [ok |-> FALSE]
RECURSIVE ApplyPatch(_, _)
ApplyPatch(d, ops) ==
    IF ops = <<>> THEN [ok |-> TRUE, doc |-> d]
    ELSE IF OpApplies(d, Head(ops))
         THEN ApplyPatch(ApplyOp(d, Head(ops)), Tail(ops))
         ELSE [ok |-> FALSE, doc |-> d]

(***************************************************************************)
(* JSON Merge Patch (RFC 7396) as jsonpatch.MergePatch applies it to two   *)
(* objects: a null member of the patch removes the member, an object       *)
(* member is merged into an object of the document, and every other value  *)
(* replaces; an object that replaces, or is added, loses its null members. *)
(***************************************************************************)
RECURSIVE PruneNulls(_)
PruneNulls(j) ==
    CASE j.t = "obj" ->
           JObj([k \in {m \in DOMAIN j.v : j.v[m] # JNull} |-> PruneNulls(j.v[k])])
      [] j.t = "arr" ->
           JArr([i \in DOMAIN j.v |-> IF j.v[i] = JNull THEN JNull ELSE PruneNulls(j.v[i])])
      [] OTHER -> j

\* MergeDocs, were an object of the patch never merged into the document's
MergeDocsShallow(doc, patch) ==
    LET removed == {k \in DOMAIN patch.v : patch.v[k] = JNull}
        kept == (DOMAIN doc.v \cup DOMAIN patch.v) \ removed
    IN JObj([k \in kept |->
               IF k \notin DOMAIN patch.v THEN doc.v[k] ELSE PruneNulls(patch.v[k])])

RECURSIVE MergeDocs(_, _)
MergeDocs(doc, patch) ==
    LET removed == {k \in DOMAIN patch.v : patch.v[k] = JNull}
        kept == (DOMAIN doc.v \cup DOMAIN patch.v) \ removed
    IN JObj([k \in kept |->
               IF k \notin DOMAIN patch.v THEN doc.v[k]
               ELSE IF k \notin DOMAIN doc.v \/ doc.v[k] = JNull THEN PruneNulls(patch.v[k])
               ELSE IF doc.v[k].t # "obj" THEN PruneNulls(patch.v[k])
               ELSE IF patch.v[k].t # "obj" THEN patch.v[k]
               ELSE MergeDocs(doc.v[k], patch.v[k])])

\* MergePatch, were an array of the patch appended to the array of the document
MergePatchAppend(doc, patch) ==
    IF doc.t = "obj" /\ patch.t = "obj"
    THEN LET m == MergeDocs(doc, patch)
         IN [ok |-> TRUE,
             doc |-> JObj([k \in DOMAIN m.v |->
                        IF k \in DOMAIN doc.v /\ k \in DOMAIN patch.v
                           /\ doc.v[k].t = "arr" /\ patch.v[k].t = "arr"
                        THEN JArr(doc.v[k].v \o patch.v[k].v)
                        ELSE m.v[k]])]
    ELSE [ok |-> FALSE, doc |-> JNull]

\* jsonpatch.MergePatch(original, body): [ok |-> TRUE, doc |-> modified], or
\* [ok |-> FALSE] when the outcome is an error or not an object
MergePatch(doc, patch) ==
    IF doc.t = "obj" /\ patch.t = "obj"
    THEN [ok |-> TRUE, doc |-> MergeDocs(doc, patch)]
    ELSE [ok |-> FALSE, doc |-> JNull]

(***************************************************************************)
(* gojsonschema.Validate, for the keywords the model's schemas use: type,  *)
(* required, properties with additionalProperties.  A nil Properties map   *)
(* is loaded as the document null.                                         *)
(***************************************************************************)
StrSet(arr) == {arr.v[i].v : i \in DOMAIN arr.v}

Validate(schema, props) ==
    LET s == schema.v
        isNull == props = EmptyMap
    IN /\ ("type" \in DOMAIN s /\ s["type"] = JStr("object")) => ~isNull
       /\ "required" \in DOMAIN s => StrSet(s["required"]) \subseteq DOMAIN props
       /\ ("additionalProperties" \in DOMAIN s /\ s["additionalProperties"] = JBool("false"))
            => DOMAIN props \subseteq
                 (IF "properties" \in DOMAIN s THEN DOMAIN s["properties"].v ELSE {})

(***************************************************************************)
(* The type registry's built-in definition and the parsing of a stored     *)
(* definition (resouce_type_definition.go).                                *)
(***************************************************************************)
CorePackage == "core"
RTDType == "ResourceTypeDefinition"

\* the composite key MemRepo.put, MemRepo.delete and MemRepo.get compute
Key(packageName, resourceType, name) ==
    packageName \o "/" \o resourceType \o "/" \o name

KeyOf(r) == Key(r.metadata.packageName, r.metadata.resourceType, r.metadata.name)

NoRTD == [package |-> "", resourceType |-> "", plural |-> "", versions |-> <<>>]

\* getCoreResourceTypeDefinition, case "resourcetypedefinitions"
BuiltinRTD ==
    [package |-> CorePackage, resourceType |-> RTDType,
     plural |-> "ResourceTypeDefinitions",
     versions |-> << JObj(("type" :> JStr("object")) @@ ("properties" :> JObj(EmptyMap))) >>]

\* the unchecked type assertions item.Properties[f].(string) do not panic
AssertionsOk(r) ==
    \A f \in {"package", "resourceType", "plural"} :
        f \in DOMAIN r.properties /\ r.properties[f].t \in {"str", "time"}

\* the checked assertions on versions, on each version and on its schema succeed
VersionsOk(r) ==
    /\ "versions" \in DOMAIN r.properties
    /\ r.properties["versions"].t = "arr"
    /\ \A i \in DOMAIN r.properties["versions"].v :
         LET ver == r.properties["versions"].v[i]
         IN /\ ver.t = "obj"
            /\ "schema" \in DOMAIN ver.v
            /\ ver.v["schema"].t = "obj"

\* the ResourceTypeDefinition built from a stored resource
ParseRTD(r) ==
    [package |-> StringOf(r.properties["package"]),
     resourceType |-> StringOf(r.properties["resourceType"]),
     plural |-> StringOf(r.properties["plural"]),
     versions |-> [i \in DOMAIN r.properties["versions"].v |->
                     r.properties["versions"].v[i].v["schema"]]]

(***************************************************************************)
(* The requests the model serves.                                          *)
(***************************************************************************)
BigNum == "9007199254740993"

FooSchema ==
    JObj(("type" :> JStr("object"))
      @@ ("properties" :> JObj([k \in {"bar", "baz", "bad", "bal"} |-> JObj(EmptyMap)]))
      @@ ("required" :> JArr(<< JStr("baz") >>))
      @@ ("additionalProperties" :> JBool("false")))

\* a type definition as the test registers it
RTDBody(plural, type, schema) ==
    JObj(("metadata" :> JObj(("name" :> JStr(plural \o ".test"))
                          @@ ("packageName" :> JStr("test"))
                          @@ ("apiVersion" :> JStr("v1"))
                          @@ ("resourceType" :> JStr(type))))
      @@ ("package" :> JStr("test"))
      @@ ("resourceType" :> JStr(type))
      @@ ("plural" :> JStr(plural))
      @@ ("versions" :> JArr(<< JObj(("name" :> JStr("v1")) @@ ("schema" :> schema)) >>)))

FooRTDBody == RTDBody("foos", "Foo", FooSchema)
\* a package may name a type of its own like a type of another package
DefRTDBody == RTDBody("defs", RTDType, JObj(EmptyMap))

NameOnly(n) == JObj("name" :> JStr(n))

\* {"metadata": {"name": "foo1"}, "bar": 1, "baz": true}
FooBody1 ==
    JObj(("metadata" :> NameOnly("foo1")) @@ ("bar" :> JNum("1")) @@ ("baz" :> JBool("true")))
\* a body that carries identity and server-assigned fields of its own
FooBody2 ==
    JObj(("metadata" :> JObj(("name" :> JStr("foo1")) @@ ("packageName" :> JStr("other"))
                          @@ ("resourceType" :> JStr("Bar")) @@ ("uid" :> JStr("mine"))))
      @@ ("bar" :> JNum(BigNum)) @@ ("baz" :> JBool("false")))
\* {"metadata": {"name": "foo1"}, "baz": true, "bal": "x"}
FooBody3 ==
    JObj(("metadata" :> NameOnly("foo1")) @@ ("baz" :> JBool("true")) @@ ("bal" :> JStr("x")))
\* {"bar": 1, "baz": true}: no name
NoNameBody == JObj(("bar" :> JNum("1")) @@ ("baz" :> JBool("true")))
\* {"metadata": {"name": "foo1"}, "barr": 1, "baz": true}: violates the Foo schema
InvalidBody ==
    JObj(("metadata" :> NameOnly("foo1")) @@ ("barr" :> JNum("1")) @@ ("baz" :> JBool("true")))
\* [{"name": "foo1"}]: not an object
ArrayBody == JArr(<< JObj("name" :> JStr("foo1")) >>)

\* the test's patch: every operation applies to the resource of "update item"
TestPatch ==
    << OpAdd(<<"bad">>, JObj(EmptyMap)), OpAdd(<<"bad", "bag">>, JStr("wiz")),
       OpReplace(<<"bar">>, JNum("4")), OpRemove(<<"baz">>) >>
\* fails at its last operation once "bal" is absent
RemoveMissingPatch == << OpReplace(<<"baz">>, JBool("false")), OpRemove(<<"bal">>) >>
\* fails at its test unless bar is 1
TestBarPatch ==
    << OpAdd(<<"bal">>, JStr("y")), OpTest(<<"bar">>, JNum("1")), OpRemove(<<"bar">>) >>
\* moves and copies; fails when "bar" is absent
MoveCopyPatch ==
    << OpCopy(<<"baz">>, <<"bal">>), OpMove(<<"bar">>, <<"bad">>),
       OpReplace(<<"metadata", "name">>, JStr("foo2")) >>

Patches == {TestPatch, RemoveMissingPatch, TestBarPatch, MoveCopyPatch}

\* the test's merge patch: {"bal": "Bally", "bar": null}
TestMerge == JObj(("bal" :> JStr("Bally")) @@ ("bar" :> JNull))
\* {"bad": {"bat": "x", "bau": null}}: an object for a member that is an object
\* after the test's patch and absent before it
NestedMerge == JObj("bad" :> JObj(("bat" :> JStr("x")) @@ ("bau" :> JNull)))
\* {"baz": {"on": null, "off": "y"}, "bal": ["a"]}: an object for a member that
\* is a boolean, an array for a member that is a string or absent
MismatchMerge ==
    JObj(("baz" :> JObj(("on" :> JNull) @@ ("off" :> JStr("y"))))
      @@ ("bal" :> JArr(<< JStr("a") >>)))
\* a merge patch that writes the identity fields of the metadata
RenameMerge ==
    JObj("metadata" :> JObj(("name" :> JStr("foo2")) @@ ("packageName" :> JStr("other"))
                          @@ ("resourceType" :> JStr("Bar")) @@ ("apiVersion" :> JStr("v9"))))
\* [{"bar": 1}]: not an object
ArrayMerge == JArr(<< JObj("bar" :> JNum("1")) >>)
MergePatches == {TestMerge, NestedMerge, MismatchMerge, RenameMerge, ArrayMerge}

\* a schema of a second version: bal is required, baz is not
BalSchema ==
    JObj(("type" :> JStr("object"))
      @@ ("properties" :> JObj([k \in {"bar", "baz", "bal"} |-> JObj(EmptyMap)]))
      @@ ("required" :> JArr(<< JStr("bal") >>))
      @@ ("additionalProperties" :> JBool("false")))

\* a type definition with two versions, v1 with the schema of Foo and v2
BatRTDBody ==
    JObj([RTDBody("bats", "Bat", FooSchema).v EXCEPT !["versions"] =
            JArr(<< JObj(("name" :> JStr("v1")) @@ ("schema" :> FooSchema)),
                    JObj(("name" :> JStr("v2")) @@ ("schema" :> BalSchema)) >>)])

\* {"metadata": {"name": "foo1"}, "bal": "x"}: valid for v2, not for v1
BalBody == JObj(("metadata" :> NameOnly("foo1")) @@ ("bal" :> JStr("x")))
\* {"metadata": {"name": ""}, "baz": true}
EmptyNameBody == JObj(("metadata" :> NameOnly("")) @@ ("baz" :> JBool("true")))
\* a replacement that names another resource, package, type and version
RenamedBody ==
    JObj(("metadata" :> JObj(("name" :> JStr("foo2")) @@ ("packageName" :> JStr("other"))
                          @@ ("resourceType" :> JStr("Foo")) @@ ("apiVersion" :> JStr("v9"))))
      @@ ("baz" :> JBool("false")))

\* the type Foo redefined: its only version has the schema that requires bal
FooRTDBody2 == RTDBody("foos", "Foo", BalSchema)
\* a type definition stored under the name the built-in definition would have
CoreRTDBody ==
    JObj(("metadata" :> NameOnly("resourcetypedefinitions.core"))
      @@ ("package" :> JStr(CorePackage))
      @@ ("resourceType" :> JStr("Hijack"))
      @@ ("plural" :> JStr("resourcetypedefinitions"))
      @@ ("versions" :> JArr(<< JObj(("name" :> JStr("v1")) @@ ("schema" :> FooSchema)) >>)))
\* patches that leave a stored type definition without its package, and with
\* a number for its plural
RemovePackagePatch == << OpRemove(<<"package">>) >>
NumberPluralPatch == << OpReplace(<<"plural">>, JNum("1")) >>
\* merge patches that leave it with a string for its versions, and with a
\* version that has no schema
StringVersionsMerge == JObj("versions" :> JStr("none"))
NoSchemaMerge == JObj("versions" :> JArr(<< JObj("name" :> JStr("v1")) >>))
\* a merge patch that leaves it with no version at all
EmptyVersionsMerge == JObj("versions" :> JArr(<< >>))

\* a type whose singular name contains the separator of the composite key
SlashRTDBody == RTDBody("foobars", "Foo/bar", FooSchema)
\* a merge patch that leaves a stored type definition with the package and the
\* plural of another type
OtherTypeMerge == JObj(("package" :> JStr("other")) @@ ("plural" :> JStr("bars")))
\* {"metadata": {"name": "bar/foo1"}, "bar": 1, "baz": true}
SlashNameBody ==
    JObj(("metadata" :> NameOnly("bar/foo1")) @@ ("bar" :> JNum("1")) @@ ("baz" :> JBool("true")))

Request(kind, pkg, ver, plural, name, body, patch) ==
    [kind |-> kind, packageName |-> pkg, apiVersion |-> ver,
     resourceTypePlural |-> plural, name |-> name, body |-> body, patch |-> patch]

NoRequest == Request("", "", "", "", "", JNull, <<>>)

\* requests by kind; a field a request kind does not read is left empty
ListReq(pkg, pl) == Request("list", pkg, "v1", pl, "", JNull, <<>>)
CreateReq(pkg, pl, b) == Request("create", pkg, "v1", pl, "", b, <<>>)
GetReq(pkg, pl, n) == Request("get", pkg, "v1", pl, n, JNull, <<>>)
ReplaceReq(pkg, pl, n, b) == Request("replace", pkg, "v1", pl, n, b, <<>>)
JSONPatchReq(pkg, pl, n, pt) == Request("jsonpatch", pkg, "v1", pl, n, JNull, pt)
MergePatchReq(pkg, pl, n, b) == Request("mergepatch", pkg, "v1", pl, n, b, <<>>)
DeleteReq(pkg, pl, n) == Request("delete", pkg, "v1", pl, n, JNull, <<>>)

RTDPlural == "resourcetypedefinitions"

\* the requests that register and unregister the types of package test
RegistryRequests ==
    {CreateReq(CorePackage, RTDPlural, FooRTDBody),
     CreateReq(CorePackage, RTDPlural, DefRTDBody),
     DeleteReq(CorePackage, RTDPlural, "foos.test"),
     ListReq(CorePackage, RTDPlural)}

\* the requests on the resource foo1 of type Foo
FooRequests ==
    {ListReq("test", "foos"), GetReq("test", "foos", "foo1"),
     DeleteReq("test", "foos", "foo1")}
    \cup {CreateReq("test", "foos", b) :
            b \in {FooBody1, FooBody2, NoNameBody, InvalidBody, ArrayBody}}
    \cup {ReplaceReq("test", "foos", "foo1", b) : b \in {FooBody3, NoNameBody, ArrayBody}}
    \cup {JSONPatchReq("test", "foos", "foo1", pt) : pt \in Patches}

\* the requests on the resource foo1 of type test/ResourceTypeDefinition
DefRequests ==
    {ListReq("test", "defs"), CreateReq("test", "defs", FooBody1),
     GetReq("test", "defs", "foo1"), DeleteReq("test", "defs", "foo1")}

\* the requests of the sequential specification
SeqRequests == RegistryRequests \cup FooRequests \cup DefRequests

\* the requests of the concurrent specification
ConcRequests ==
    {ListReq("test", "foos"), GetReq("test", "foos", "foo1"),
     CreateReq("test", "foos", FooBody1),
     ReplaceReq("test", "foos", "foo1", FooBody3),
     JSONPatchReq("test", "foos", "foo1", TestBarPatch),
     DeleteReq("test", "foos", "foo1"),
     DeleteReq(CorePackage, RTDPlural, "foos.test")}

(***************************************************************************)
(* The state.                                                              *)
(***************************************************************************)
VARIABLES
    db,         \* MemRepo.db: composite key -> *Resource
    lock,       \* MemRepo.Mutex: the set of its holders (empty when free)
    mapWriter,  \* the workers whose map assignment or delete is in progress
    fatal,      \* the runtime has thrown a fatal error: the process is gone
    now,        \* what time.Now() returns
    nextUid,    \* the number of uids handed out so far, plus one
    pc,         \* where each worker is in its handler
    req,        \* the request each worker serves
    rtd,        \* the handler's resourceTypeDefinition
    item,       \* the handler's item / currentItem / newItem
    resp        \* the response each worker has written

vars == <<db, lock, mapWriter, fatal, now, nextUid, pc, req, rtd, item, resp>>

\* a nil slice, and what respond.Done is given besides a status
NilItems == [null |-> TRUE, elems |-> {}]
NoResponse == [status |-> "", item |-> NilResource, items |-> NilItems]

\* uuid.NewString(): the n-th uid
UidStr(n) == <<"u1", "u2", "u3", "u4", "u5">>[n]

\* NewMemRepo and NewHandler: an empty map, a free mutex, no request in flight
Init ==
    /\ db = EmptyMap
    /\ lock = {}
    /\ mapWriter = {}
    /\ fatal = FALSE
    /\ now = 1
    /\ nextUid = 1
    /\ pc = [p \in Workers |-> "idle"]
    /\ req = [p \in Workers |-> NoRequest]
    /\ rtd = [p \in Workers |-> NoRTD]
    /\ item = [p \in Workers |-> NilResource]
    /\ resp = [p \in Workers |-> NoResponse]


(***************************************************************************)
(* Reads of the backing map.  MemRepo.get and MemRepo.List read repo.db    *)
(* without the mutex.  A read that overlaps a map write is a data race:    *)
(* the runtime may throw "concurrent map read and map write" (fatal), or   *)
(* the read sees the map before the write, after it, or in between (the    *)
(* key present with its value not yet stored, or the key missed).          *)
(***************************************************************************)
\* the map once the write in progress by worker w is complete
AfterWrite(w) ==
    IF pc[w] = "put_end"
    THEN (KeyOf(item[w]) :> item[w]) @@ db
    ELSE LET k == Key(req[w].packageName, rtd[w].resourceType, req[w].name)
         IN [x \in DOMAIN db \ {k} |-> db[x]]

Found(r) == [fatal |-> FALSE, ok |-> TRUE, item |-> r]
NotFound == [fatal |-> FALSE, ok |-> FALSE, item |-> NilResource]
Fatal == [fatal |-> TRUE, ok |-> FALSE, item |-> NilResource]

Lookup(m, key) == IF key \in DOMAIN m THEN Found(m[key]) ELSE NotFound

\* the outcomes of item, ok := repo.db[key]
MapLookup(key) ==
    IF mapWriter = {}
    THEN {Lookup(db, key)}
    ELSE {Lookup(db, key), Found(NilResource), NotFound, Fatal}
         \cup {Lookup(AfterWrite(w), key) : w \in mapWriter}

Values(m) == {m[k] : k \in DOMAIN m}

Collected(m) == [fatal |-> FALSE, items |-> Values(m)]

\* the outcomes of slices.Collect(maps.Values(repo.db))
MapValues ==
    IF mapWriter = {}
    THEN {Collected(db)}
    ELSE {Collected(db), [fatal |-> TRUE, items |-> {}]}
         \cup {Collected(AfterWrite(w)) : w \in mapWriter}

(***************************************************************************)
(* Steps of a handler.                                                     *)
(***************************************************************************)
Goto(p, label) == pc' = [pc EXCEPT ![p] = label]

\* respond.Done: the handler returns
Reply(p, status, it, its) ==
    /\ pc' = [pc EXCEPT ![p] = "done"]
    /\ resp' = [resp EXCEPT ![p] = [status |-> status, item |-> it, items |-> its]]
    /\ item' = [item EXCEPT ![p] = NilResource]
    /\ UNCHANGED rtd

\* a fatal error of the runtime ends the process
Crash == fatal' = TRUE /\ UNCHANGED <<pc, resp, item, rtd>>

\* a request arrives and a goroutine starts serving it
Start(p, r) ==
    /\ ~fatal
    /\ pc[p] = "idle"
    /\ r.kind = "create" =>
         nextUid + Cardinality({q \in Workers : req[q].kind = "create"
                                  /\ pc[q] \in {"resolve", "create_prepare"}}) <= MaxUid
    /\ req' = [req EXCEPT ![p] = r]
    /\ Goto(p, "resolve")
    /\ UNCHANGED <<db, lock, mapWriter, fatal, now, nextUid, rtd, item, resp>>

\* the handler's first step after a successful resolution
AfterResolve(kind) ==
    CASE kind = "list" -> "list"
      [] kind = "create" -> "create_prepare"
      [] kind = "get" -> "get"
      [] kind = "replace" -> "replace_prepare"
      [] kind = "jsonpatch" -> "patch_get"
      [] kind = "mergepatch" -> "patch_get"
      [] kind = "delete" -> "delete_check"

\* how a handler answers a failed resolution: only handleListResources looks
\* for the typed ResourceTypeDefinitionNotFoundError
ResolveFailure(kind, typed) == IF kind = "list" /\ typed THEN "404" ELSE "500"

Resolved(p, d) ==
    /\ rtd' = [rtd EXCEPT ![p] = d]
    /\ Goto(p, AfterResolve(req[p].kind))
    /\ UNCHANGED <<resp, item>>

\* Resolve, were the definition looked up under the plural alone
ResolveByPlural(p) ==
    /\ ~fatal
    /\ pc[p] = "resolve"
    /\ LET r == req[p]
           name == r.resourceTypePlural
       IN IF r.packageName = CorePackage
          THEN /\ IF r.resourceTypePlural = "resourcetypedefinitions"
                  THEN Resolved(p, BuiltinRTD)
                  ELSE Reply(p, ResolveFailure(r.kind, FALSE), NilResource, NilItems)
               /\ UNCHANGED fatal
          ELSE \E out \in MapLookup(Key(CorePackage, RTDType, name)) :
                 IF out.fatal THEN Crash
                 ELSE /\ UNCHANGED fatal
                      /\ IF ~out.ok
                         THEN Reply(p, ResolveFailure(r.kind, TRUE), NilResource, NilItems)
                         ELSE IF IsNil(out.item) \/ ~AssertionsOk(out.item)
                         THEN Reply(p, "panic", NilResource, NilItems)
                         ELSE IF ~VersionsOk(out.item)
                         THEN Reply(p, ResolveFailure(r.kind, FALSE), NilResource, NilItems)
                         ELSE Resolved(p, ParseRTD(out.item))
    /\ UNCHANGED <<db, lock, mapWriter, now, nextUid, req>>

\* Resolve, were a stored definition of the name preferred to the built-in one
ResolveStoredFirst(p) ==
    /\ ~fatal
    /\ pc[p] = "resolve"
    /\ LET r == req[p]
           name == r.resourceTypePlural \o "." \o r.packageName
       IN IF r.packageName = CorePackage
               /\ Key(CorePackage, RTDType, name) \notin DOMAIN db
          THEN /\ IF r.resourceTypePlural = "resourcetypedefinitions"
                  THEN Resolved(p, BuiltinRTD)
                  ELSE Reply(p, ResolveFailure(r.kind, FALSE), NilResource, NilItems)
               /\ UNCHANGED fatal
          ELSE \E out \in MapLookup(Key(CorePackage, RTDType, name)) :
                 IF out.fatal THEN Crash
                 ELSE /\ UNCHANGED fatal
                      /\ IF ~out.ok
                         THEN Reply(p, ResolveFailure(r.kind, TRUE), NilResource, NilItems)
                         ELSE IF IsNil(out.item) \/ ~AssertionsOk(out.item)
                         THEN Reply(p, "panic", NilResource, NilItems)
                         ELSE IF ~VersionsOk(out.item)
                         THEN Reply(p, ResolveFailure(r.kind, FALSE), NilResource, NilItems)
                         ELSE Resolved(p, ParseRTD(out.item))
    /\ UNCHANGED <<db, lock, mapWriter, now, nextUid, req>>

\* Resolve, were the first definition of Foo kept in a table and never re-read
ResolveCached(p) ==
    /\ ~fatal
    /\ pc[p] = "resolve"
    /\ LET r == req[p]
           name == r.resourceTypePlural \o "." \o r.packageName
       IN IF r.packageName = CorePackage
          THEN /\ IF r.resourceTypePlural = "resourcetypedefinitions"
                  THEN Resolved(p, BuiltinRTD)
                  ELSE Reply(p, ResolveFailure(r.kind, FALSE), NilResource, NilItems)
               /\ UNCHANGED fatal
          ELSE IF name = "foos.test" /\ nextUid > 1
          THEN /\ Resolved(p, [package |-> "test", resourceType |-> "Foo",
                               plural |-> "foos", versions |-> << FooSchema >>])
               /\ UNCHANGED fatal
          ELSE \E out \in MapLookup(Key(CorePackage, RTDType, name)) :
                 IF out.fatal THEN Crash
                 ELSE /\ UNCHANGED fatal
                      /\ IF ~out.ok
                         THEN Reply(p, ResolveFailure(r.kind, TRUE), NilResource, NilItems)
                         ELSE IF IsNil(out.item) \/ ~AssertionsOk(out.item)
                         THEN Reply(p, "panic", NilResource, NilItems)
                         ELSE IF ~VersionsOk(out.item)
                         THEN Reply(p, ResolveFailure(r.kind, FALSE), NilResource, NilItems)
                         ELSE Resolved(p, ParseRTD(out.item))
    /\ UNCHANGED <<db, lock, mapWriter, now, nextUid, req>>

\* getResourceTypeDefinition
Resolve(p) ==
    /\ ~fatal
    /\ pc[p] = "resolve"
    /\ LET r == req[p]
           name == r.resourceTypePlural \o "." \o r.packageName
       IN IF r.packageName = CorePackage
          THEN /\ IF r.resourceTypePlural = "resourcetypedefinitions"
                  THEN Resolved(p, BuiltinRTD)
                  ELSE Reply(p, ResolveFailure(r.kind, FALSE), NilResource, NilItems)
               /\ UNCHANGED fatal
          ELSE \E out \in MapLookup(Key(CorePackage, RTDType, name)) :
                 IF out.fatal THEN Crash
                 ELSE /\ UNCHANGED fatal
                      /\ IF ~out.ok
                         THEN Reply(p, ResolveFailure(r.kind, TRUE), NilResource, NilItems)
                         ELSE IF IsNil(out.item) \/ ~AssertionsOk(out.item)
                         THEN Reply(p, "panic", NilResource, NilItems)
                         ELSE IF ~VersionsOk(out.item)
                         THEN Reply(p, ResolveFailure(r.kind, FALSE), NilResource, NilItems)
                         ELSE Resolved(p, ParseRTD(out.item))
    /\ UNCHANGED <<db, lock, mapWriter, now, nextUid, req>>

\* slices.Collect: nil when the sequence yields nothing
Collect(elems) == [null |-> elems = {}, elems |-> elems]

\* ListItems, were the package not compared
ListItemsAnyPackage(allItems, packageName, resourceType) ==
    LET resourceItems ==
            Collect({x \in allItems : x.metadata.resourceType = resourceType})
    IN IF resourceItems.null THEN [null |-> FALSE, elems |-> {}] ELSE resourceItems

\* the items of MemRepo.List: those of allItems with the resource type and the
\* package, and an empty slice in the place of a nil one
ListItems(allItems, packageName, resourceType) ==
    LET resourceItems ==
            Collect({x \in allItems : /\ x.metadata.resourceType = resourceType
                                      /\ x.metadata.packageName = packageName})
    IN IF resourceItems.null THEN [null |-> FALSE, elems |-> {}] ELSE resourceItems

\* MemRepo.List, called by handleListResources
List(p) ==
    /\ ~fatal
    /\ pc[p] = "list"
    /\ \E out \in MapValues :
         IF out.fatal THEN Crash
         ELSE /\ UNCHANGED fatal
              /\ Reply(p, "200", NilResource,
                       ListItems(out.items, req[p].packageName, rtd[p].resourceType))
    /\ UNCHANGED <<db, lock, mapWriter, now, nextUid, req>>

\* CreateStamp, were the package and the type of the body kept
CreateStampKeepIdentity(m, r, d, uid, t) ==
    [m EXCEPT !.uid = uid, !.apiVersion = r.apiVersion, !.createdAt = t, !.updatedAt = t]

\* CreateStamp, were a uid the body carries kept
CreateStampBodyUid(m, r, d, uid, t) ==
    [m EXCEPT !.uid = IF @ = "" THEN uid ELSE @, !.packageName = r.packageName,
              !.apiVersion = r.apiVersion, !.resourceType = d.resourceType,
              !.createdAt = t, !.updatedAt = t]

\* metadata as handleCreateResource stamps it
CreateStamp(m, r, d, uid, t) ==
    [m EXCEPT !.uid = uid, !.packageName = r.packageName, !.apiVersion = r.apiVersion,
              !.resourceType = d.resourceType, !.createdAt = t, !.updatedAt = t]

\* CreatePrepare, were the name of the resource not looked at
CreatePrepareAnyName(p) ==
    /\ ~fatal
    /\ pc[p] = "create_prepare"
    /\ LET r == req[p]
           decoded == Unmarshal(r.body)
       IN IF ~UnmarshalOk(r.body)
          THEN Reply(p, "400", NilResource, NilItems) /\ UNCHANGED nextUid
          ELSE IF rtd[p].versions = <<>>
          THEN Reply(p, "panic", NilResource, NilItems) /\ UNCHANGED nextUid
          ELSE IF ~Validate(rtd[p].versions[1], decoded.properties)
          THEN Reply(p, "400", NilResource, NilItems) /\ UNCHANGED nextUid
          ELSE /\ nextUid <= MaxUid
               /\ nextUid' = nextUid + 1
               /\ item' = [item EXCEPT ![p] =
                     [decoded EXCEPT !.metadata =
                         CreateStamp(@, r, rtd[p], UidStr(nextUid), now)]]
               /\ Goto(p, "create_check")
               /\ UNCHANGED <<resp, rtd>>
    /\ UNCHANGED <<db, lock, mapWriter, fatal, now, req>>

\* CreatePrepare, were the payload validated against the last version's schema
CreatePrepareLastVersion(p) ==
    /\ ~fatal
    /\ pc[p] = "create_prepare"
    /\ LET r == req[p]
           decoded == Unmarshal(r.body)
       IN IF ~UnmarshalOk(r.body) \/ decoded.metadata.name = ""
          THEN Reply(p, "400", NilResource, NilItems) /\ UNCHANGED nextUid
          ELSE IF rtd[p].versions = <<>>
          THEN Reply(p, "panic", NilResource, NilItems) /\ UNCHANGED nextUid
          ELSE IF ~Validate(rtd[p].versions[Len(rtd[p].versions)], decoded.properties)
          THEN Reply(p, "400", NilResource, NilItems) /\ UNCHANGED nextUid
          ELSE /\ nextUid <= MaxUid
               /\ nextUid' = nextUid + 1
               /\ item' = [item EXCEPT ![p] =
                     [decoded EXCEPT !.metadata =
                         CreateStamp(@, r, rtd[p], UidStr(nextUid), now)]]
               /\ Goto(p, "create_check")
               /\ UNCHANGED <<resp, rtd>>
    /\ UNCHANGED <<db, lock, mapWriter, fatal, now, req>>

\* handleCreateResource from the decoding of the body to the call of repo.Create
CreatePrepare(p) ==
    /\ ~fatal
    /\ pc[p] = "create_prepare"
    /\ LET r == req[p]
           decoded == Unmarshal(r.body)
       IN IF ~UnmarshalOk(r.body) \/ decoded.metadata.name = ""
          THEN Reply(p, "400", NilResource, NilItems) /\ UNCHANGED nextUid
          ELSE IF rtd[p].versions = <<>>
          THEN Reply(p, "panic", NilResource, NilItems) /\ UNCHANGED nextUid
          ELSE IF ~Validate(rtd[p].versions[1], decoded.properties)
          THEN Reply(p, "400", NilResource, NilItems) /\ UNCHANGED nextUid
          ELSE /\ nextUid <= MaxUid
               /\ nextUid' = nextUid + 1
               /\ item' = [item EXCEPT ![p] =
                     [decoded EXCEPT !.metadata =
                         CreateStamp(@, r, rtd[p], UidStr(nextUid), now)]]
               /\ Goto(p, "create_check")
               /\ UNCHANGED <<resp, rtd>>
    /\ UNCHANGED <<db, lock, mapWriter, fatal, now, req>>

\* CreateCheck, were the existence check left out
CreateCheckBlind(p) ==
    /\ ~fatal
    /\ pc[p] = "create_check"
    /\ Goto(p, "put_lock")
    /\ UNCHANGED <<db, lock, mapWriter, fatal, now, nextUid, req, resp, item, rtd>>

\* MemRepo.Create: the existence check, outside the lock
CreateCheck(p) ==
    /\ ~fatal
    /\ pc[p] = "create_check"
    /\ \E out \in MapLookup(KeyOf(item[p])) :
         IF out.fatal THEN Crash
         ELSE /\ UNCHANGED fatal
              /\ IF out.ok
                 THEN Reply(p, "409", NilResource, NilItems)
                 ELSE Goto(p, "put_lock") /\ UNCHANGED <<resp, item, rtd>>
    /\ UNCHANGED <<db, lock, mapWriter, now, nextUid, req>>

\* Get, were a resource found only through the version it was stored with
GetSameVersion(p) ==
    /\ ~fatal
    /\ pc[p] = "get"
    /\ \E out \in MapLookup(Key(req[p].packageName, rtd[p].resourceType, req[p].name)) :
         IF out.fatal THEN Crash
         ELSE /\ UNCHANGED fatal
              /\ IF out.ok /\ ~IsNil(out.item)
                      /\ out.item.metadata.apiVersion = req[p].apiVersion
                 THEN Reply(p, "200", out.item, NilItems)
                 ELSE Reply(p, "404", NilResource, NilItems)
    /\ UNCHANGED <<db, lock, mapWriter, now, nextUid, req>>

\* MemRepo.Get, called by handleGetResource
Get(p) ==
    /\ ~fatal
    /\ pc[p] = "get"
    /\ \E out \in MapLookup(Key(req[p].packageName, rtd[p].resourceType, req[p].name)) :
         IF out.fatal THEN Crash
         ELSE /\ UNCHANGED fatal
              /\ IF out.ok
                 THEN Reply(p, "200", out.item, NilItems)
                 ELSE Reply(p, "404", NilResource, NilItems)
    /\ UNCHANGED <<db, lock, mapWriter, now, nextUid, req>>

\* UpdateStamp, were a name the document carries kept
UpdateStampBodyName(m, r, d, t) ==
    [m EXCEPT !.packageName = r.packageName, !.apiVersion = r.apiVersion,
              !.resourceType = d.resourceType,
              !.name = IF @ = "" THEN r.name ELSE @, !.updatedAt = t]

\* UpdateStamp, were the identity the document carries kept
UpdateStampKeepIdentity(m, r, d, t) == [m EXCEPT !.updatedAt = t]

\* metadata as handleReplaceResource and the patch handlers stamp it
UpdateStamp(m, r, d, t) ==
    [m EXCEPT !.packageName = r.packageName, !.apiVersion = r.apiVersion,
              !.resourceType = d.resourceType, !.name = r.name, !.updatedAt = t]

\* ReplacePrepare, were the replacement validated as create validates
ReplacePrepareValidated(p) ==
    /\ ~fatal
    /\ pc[p] = "replace_prepare"
    /\ IF ~UnmarshalOk(req[p].body)
       THEN Reply(p, "400", NilResource, NilItems)
       ELSE IF rtd[p].versions # <<>>
               /\ ~Validate(rtd[p].versions[1], Unmarshal(req[p].body).properties)
       THEN Reply(p, "400", NilResource, NilItems)
       ELSE /\ item' = [item EXCEPT ![p] =
                  [Unmarshal(req[p].body) EXCEPT !.metadata =
                      UpdateStamp(@, req[p], rtd[p], now)]]
            /\ Goto(p, "update_check")
            /\ UNCHANGED <<resp, rtd>>
    /\ UNCHANGED <<db, lock, mapWriter, fatal, now, nextUid, req>>

\* handleReplaceResource from the decoding of the body to the call of repo.Update
ReplacePrepare(p) ==
    /\ ~fatal
    /\ pc[p] = "replace_prepare"
    /\ IF ~UnmarshalOk(req[p].body)
       THEN Reply(p, "400", NilResource, NilItems)
       ELSE /\ item' = [item EXCEPT ![p] =
                  [Unmarshal(req[p].body) EXCEPT !.metadata =
                      UpdateStamp(@, req[p], rtd[p], now)]]
            /\ Goto(p, "update_check")
            /\ UNCHANGED <<resp, rtd>>
    /\ UNCHANGED <<db, lock, mapWriter, fatal, now, nextUid, req>>

\* UpdateCheck, were an absent key inserted
UpdateCheckUpsert(p) ==
    /\ ~fatal
    /\ pc[p] = "update_check"
    /\ Goto(p, "put_lock")
    /\ UNCHANGED <<db, lock, mapWriter, fatal, now, nextUid, req, resp, item, rtd>>

\* MemRepo.Update: the existence check, outside the lock
UpdateCheck(p) ==
    /\ ~fatal
    /\ pc[p] = "update_check"
    /\ \E out \in MapLookup(KeyOf(item[p])) :
         IF out.fatal THEN Crash
         ELSE /\ UNCHANGED fatal
              /\ IF out.ok
                 THEN Goto(p, "put_lock") /\ UNCHANGED <<resp, item, rtd>>
                 ELSE Reply(p, "404", NilResource, NilItems)
    /\ UNCHANGED <<db, lock, mapWriter, now, nextUid, req>>

\* handleJSONPatchResource and handleMergePatchResource: repo.Get of the
\* current item
PatchGet(p) ==
    /\ ~fatal
    /\ pc[p] = "patch_get"
    /\ \E out \in MapLookup(Key(req[p].packageName, rtd[p].resourceType, req[p].name)) :
         IF out.fatal THEN Crash
         ELSE /\ UNCHANGED fatal
              /\ IF out.ok
                 THEN /\ item' = [item EXCEPT ![p] = out.item]
                      /\ Goto(p, "patch_apply")
                      /\ UNCHANGED <<resp, rtd>>
                 ELSE Reply(p, "404", NilResource, NilItems)
    /\ UNCHANGED <<db, lock, mapWriter, now, nextUid, req>>

\* json.Marshal(currentItem): a nil pointer is written as null
Original(cur) == IF IsNil(cur) THEN JNull ELSE Marshal(cur)

\* the outcome of patch.Apply(original) followed by json.Unmarshal(modified, &newItem)
JSONPatch(cur, ops) ==
    LET res == ApplyPatch(Original(cur), ops)
    IN IF res.ok /\ UnmarshalOk(res.doc)
       THEN [ok |-> TRUE, item |-> Unmarshal(res.doc)]
       ELSE [ok |-> FALSE, item |-> NilResource]

\* the outcome of jsonpatch.MergePatch(original, body) followed by
\* json.Unmarshal(modified, &newItem)
JSONMergePatch(cur, body) ==
    LET res == MergePatch(Original(cur), body)
    IN IF res.ok /\ UnmarshalOk(res.doc)
       THEN [ok |-> TRUE, item |-> Unmarshal(res.doc)]
       ELSE [ok |-> FALSE, item |-> NilResource]

\* handleJSONPatchResource and handleMergePatchResource from
\* json.Marshal(currentItem) to the call of repo.Update
PatchApply(p) ==
    /\ ~fatal
    /\ pc[p] = "patch_apply"
    /\ LET res == IF req[p].kind = "jsonpatch"
                  THEN JSONPatch(item[p], req[p].patch)
                  ELSE JSONMergePatch(item[p], req[p].body)
       IN IF ~res.ok
          THEN Reply(p, "500", NilResource, NilItems)
          ELSE /\ item' = [item EXCEPT ![p] =
                     [res.item EXCEPT !.metadata = UpdateStamp(@, req[p], rtd[p], now)]]
               /\ Goto(p, "update_check")
               /\ UNCHANGED <<resp, rtd>>
    /\ UNCHANGED <<db, lock, mapWriter, fatal, now, nextUid, req>>

\* MemRepo.Delete: the existence check, outside the lock
DeleteCheck(p) ==
    /\ ~fatal
    /\ pc[p] = "delete_check"
    /\ \E out \in MapLookup(Key(req[p].packageName, rtd[p].resourceType, req[p].name)) :
         IF out.fatal THEN Crash
         ELSE /\ UNCHANGED fatal
              /\ IF out.ok
                 THEN Goto(p, "del_lock") /\ UNCHANGED <<resp, item, rtd>>
                 ELSE Reply(p, "404", NilResource, NilItems)
    /\ UNCHANGED <<db, lock, mapWriter, now, nextUid, req>>

(***************************************************************************)
(* MemRepo.put and MemRepo.delete: Lock, the map write, the deferred       *)
(* Unlock.  The map write takes two steps, so that a read can overlap it.  *)
(***************************************************************************)
\* Acquire, were the mutex not waited for
AcquireNoWait(p) == lock' = lock \cup {p}

\* repo.Lock()
Acquire(p) == lock = {} /\ lock' = {p}
\* repo.Unlock()
Release(p) == lock' = lock \ {p}

PutLock(p) ==
    /\ ~fatal
    /\ pc[p] = "put_lock"
    /\ Acquire(p)
    /\ Goto(p, "put_begin")
    /\ UNCHANGED <<db, mapWriter, fatal, now, nextUid, req, rtd, item, resp>>

PutBegin(p) ==
    /\ ~fatal
    /\ pc[p] = "put_begin"
    /\ mapWriter' = mapWriter \cup {p}
    /\ Goto(p, "put_end")
    /\ UNCHANGED <<db, lock, fatal, now, nextUid, req, rtd, item, resp>>

\* PutEnd, were the new properties merged into the stored ones
PutEndMerge(p) ==
    /\ ~fatal
    /\ pc[p] = "put_end"
    /\ LET k == KeyOf(item[p])
           old == IF k \in DOMAIN db /\ ~IsNil(db[k]) THEN db[k].properties ELSE EmptyMap
       IN db' = (k :> [item[p] EXCEPT !.properties = @ @@ old]) @@ db
    /\ mapWriter' = mapWriter \ {p}
    /\ Goto(p, "put_unlock")
    /\ UNCHANGED <<lock, fatal, now, nextUid, req, rtd, item, resp>>

\* PutEnd, were a create an insert-if-absent under the lock
PutEndIfAbsent(p) ==
    /\ ~fatal
    /\ pc[p] = "put_end"
    /\ db' = IF req[p].kind = "create" /\ KeyOf(item[p]) \in DOMAIN db
             THEN db
             ELSE (KeyOf(item[p]) :> item[p]) @@ db
    /\ mapWriter' = mapWriter \ {p}
    /\ Goto(p, "put_unlock")
    /\ UNCHANGED <<lock, fatal, now, nextUid, req, rtd, item, resp>>

\* PutEnd, were the key built from the path of the request
PutEndAtPath(p) ==
    /\ ~fatal
    /\ pc[p] = "put_end"
    /\ db' = (Key(req[p].packageName, rtd[p].resourceType, req[p].name) :> item[p]) @@ db
    /\ mapWriter' = mapWriter \ {p}
    /\ Goto(p, "put_unlock")
    /\ UNCHANGED <<lock, fatal, now, nextUid, req, rtd, item, resp>>

\* repo.db[key] = item
PutEnd(p) ==
    /\ ~fatal
    /\ pc[p] = "put_end"
    /\ db' = (KeyOf(item[p]) :> item[p]) @@ db
    /\ mapWriter' = mapWriter \ {p}
    /\ Goto(p, "put_unlock")
    /\ UNCHANGED <<lock, fatal, now, nextUid, req, rtd, item, resp>>

\* the deferred Unlock; Create or Update returns nil and the handler answers
PutUnlock(p) ==
    /\ ~fatal
    /\ pc[p] = "put_unlock"
    /\ Release(p)
    /\ Reply(p, IF req[p].kind = "create" THEN "201" ELSE "200", item[p], NilItems)
    /\ UNCHANGED <<db, mapWriter, fatal, now, nextUid, req>>

DelLock(p) ==
    /\ ~fatal
    /\ pc[p] = "del_lock"
    /\ Acquire(p)
    /\ Goto(p, "del_begin")
    /\ UNCHANGED <<db, mapWriter, fatal, now, nextUid, req, rtd, item, resp>>

DelBegin(p) ==
    /\ ~fatal
    /\ pc[p] = "del_begin"
    /\ mapWriter' = mapWriter \cup {p}
    /\ Goto(p, "del_end")
    /\ UNCHANGED <<db, lock, fatal, now, nextUid, req, rtd, item, resp>>

\* DelEnd, were the entry left in the map
DelEndKeep(p) ==
    /\ ~fatal
    /\ pc[p] = "del_end"
    /\ mapWriter' = mapWriter \ {p}
    /\ Goto(p, "del_unlock")
    /\ UNCHANGED <<db, lock, fatal, now, nextUid, req, rtd, item, resp>>

\* DelEnd, were every resource of the package with that name deleted
DelEndByName(p) ==
    /\ ~fatal
    /\ pc[p] = "del_end"
    /\ db' = [x \in {k \in DOMAIN db :
                       \/ db[k].metadata.packageName # req[p].packageName
                       \/ db[k].metadata.name # req[p].name} |-> db[x]]
    /\ mapWriter' = mapWriter \ {p}
    /\ Goto(p, "del_unlock")
    /\ UNCHANGED <<lock, fatal, now, nextUid, req, rtd, item, resp>>

\* DelEnd, were the resources of a type deleted with its definition
DelEndCascade(p) ==
    /\ ~fatal
    /\ pc[p] = "del_end"
    /\ LET k == Key(req[p].packageName, rtd[p].resourceType, req[p].name)
           gone == IF req[p].packageName = CorePackage /\ k \in DOMAIN db
                      /\ AssertionsOk(db[k])
                   THEN {x \in DOMAIN db :
                           /\ db[x].metadata.packageName = StringOf(db[k].properties["package"])
                           /\ db[x].metadata.resourceType =
                                StringOf(db[k].properties["resourceType"])}
                   ELSE {}
       IN db' = [x \in DOMAIN db \ ({k} \cup gone) |-> db[x]]
    /\ mapWriter' = mapWriter \ {p}
    /\ Goto(p, "del_unlock")
    /\ UNCHANGED <<lock, fatal, now, nextUid, req, rtd, item, resp>>

\* delete(repo.db, key)
DelEnd(p) ==
    /\ ~fatal
    /\ pc[p] = "del_end"
    /\ LET k == Key(req[p].packageName, rtd[p].resourceType, req[p].name)
       IN db' = [x \in DOMAIN db \ {k} |-> db[x]]
    /\ mapWriter' = mapWriter \ {p}
    /\ Goto(p, "del_unlock")
    /\ UNCHANGED <<lock, fatal, now, nextUid, req, rtd, item, resp>>

\* the deferred Unlock; Delete returns nil and the handler answers
DelUnlock(p) ==
    /\ ~fatal
    /\ pc[p] = "del_unlock"
    /\ Release(p)
    /\ Reply(p, "204", NilResource, NilItems)
    /\ UNCHANGED <<db, mapWriter, fatal, now, nextUid, req>>

\* the response is on the wire: the goroutine ends
Finish(p) ==
    /\ ~fatal
    /\ pc[p] = "done"
    /\ pc' = [pc EXCEPT ![p] = "idle"]
    /\ req' = [req EXCEPT ![p] = NoRequest]
    /\ resp' = [resp EXCEPT ![p] = NoResponse]
    /\ rtd' = [rtd EXCEPT ![p] = NoRTD]
    /\ UNCHANGED <<db, lock, mapWriter, fatal, now, nextUid, item>>

\* time passes
Tick ==
    /\ ~fatal
    /\ now < MaxTime
    /\ now' = now + 1
    /\ UNCHANGED <<db, lock, mapWriter, fatal, nextUid, pc, req, rtd, item, resp>>

WorkerStep(p, R) ==
    \/ \E r \in R : Start(p, r)
    \/ Resolve(p)
    \/ List(p)
    \/ CreatePrepare(p)
    \/ CreateCheck(p)
    \/ Get(p)
    \/ ReplacePrepare(p)
    \/ UpdateCheck(p)
    \/ PatchGet(p)
    \/ PatchApply(p)
    \/ DeleteCheck(p)
    \/ PutLock(p)
    \/ PutBegin(p)
    \/ PutEnd(p)
    \/ PutUnlock(p)
    \/ DelLock(p)
    \/ DelBegin(p)
    \/ DelEnd(p)
    \/ DelUnlock(p)
    \/ Finish(p)

\* the type Foo as the first request of the test registers it
FooRTD ==
    LET r == CreateReq(CorePackage, RTDPlural, FooRTDBody)
    IN [Unmarshal(r.body) EXCEPT !.metadata = CreateStamp(@, r, BuiltinRTD, UidStr(1), 1)]

\* the state once that request is answered
InitRegistered ==
    /\ db = (KeyOf(FooRTD) :> FooRTD)
    /\ lock = {}
    /\ mapWriter = {}
    /\ fatal = FALSE
    /\ now = 1
    /\ nextUid = 2
    /\ pc = [p \in Workers |-> "idle"]
    /\ req = [p \in Workers |-> NoRequest]
    /\ rtd = [p \in Workers |-> NoRTD]
    /\ item = [p \in Workers |-> NilResource]
    /\ resp = [p \in Workers |-> NoResponse]

\* the requests of the specification of the patches
PatchRequests ==
    {ListReq("test", "foos"), GetReq("test", "foos", "foo1"),
     CreateReq("test", "foos", FooBody1),
     ReplaceReq("test", "foos", "foo1", FooBody3),
     DeleteReq("test", "foos", "foo1")}
    \cup {JSONPatchReq("test", "foos", "foo1", pt) :
            pt \in {TestPatch, RemoveMissingPatch, MoveCopyPatch}}
    \cup {MergePatchReq("test", "foos", "foo1", b) : b \in MergePatches}

\* the creates of a resource of type Bat, through either version of the API
BatCreates ==
    {[CreateReq("test", "bats", b) EXCEPT !.apiVersion = ver] :
        b \in {FooBody1, FooBody2, BalBody, NoNameBody, EmptyNameBody},
        ver \in {"v1", "v2"}}

\* requests on foo1 through the version v2 of the API
OtherVersion ==
    {[r EXCEPT !.apiVersion = "v2"] :
        r \in {ListReq("test", "bats"), GetReq("test", "bats", "foo1"),
               ReplaceReq("test", "bats", "foo1", FooBody3),
               JSONPatchReq("test", "bats", "foo1", TestPatch),
               MergePatchReq("test", "bats", "foo1", TestMerge),
               DeleteReq("test", "bats", "foo1")}}

\* the requests of the specification of the stamping
StampRequests ==
    {CreateReq(CorePackage, RTDPlural, BatRTDBody),
     ListReq("test", "bats"), GetReq("test", "bats", "foo1"),
     DeleteReq("test", "bats", "foo1"),
     JSONPatchReq("test", "bats", "foo1", TestPatch),
     MergePatchReq("test", "bats", "foo1", TestMerge)}
    \cup BatCreates
    \cup {ReplaceReq("test", "bats", "foo1", b) :
            b \in {RenamedBody, NoNameBody, FooBody3, BalBody}}
    \cup OtherVersion

\* the requests that define, redefine, damage and remove type definitions
DefinitionRequests ==
    {CreateReq(CorePackage, RTDPlural, FooRTDBody),
     CreateReq(CorePackage, RTDPlural, CoreRTDBody),
     ReplaceReq(CorePackage, RTDPlural, "foos.test", FooRTDBody2),
     JSONPatchReq(CorePackage, RTDPlural, "foos.test", RemovePackagePatch),
     JSONPatchReq(CorePackage, RTDPlural, "foos.test", NumberPluralPatch),
     MergePatchReq(CorePackage, RTDPlural, "foos.test", StringVersionsMerge),
     MergePatchReq(CorePackage, RTDPlural, "foos.test", NoSchemaMerge),
     MergePatchReq(CorePackage, RTDPlural, "foos.test", EmptyVersionsMerge),
     DeleteReq(CorePackage, RTDPlural, "foos.test"),
     DeleteReq(CorePackage, RTDPlural, "resourcetypedefinitions.core")}

\* one request of each kind on a type of this package and plural
EachKind(pkg, plural) ==
    {ListReq(pkg, plural), CreateReq(pkg, plural, FooBody1),
     GetReq(pkg, plural, "foo1"), ReplaceReq(pkg, plural, "foo1", FooBody3),
     JSONPatchReq(pkg, plural, "foo1", TestPatch),
     MergePatchReq(pkg, plural, "foo1", TestMerge),
     DeleteReq(pkg, plural, "foo1")}

\* the requests of the specification of the type registry: on the type Foo,
\* on a type nobody registers, and on a type the package core does not have
TypeRequests ==
    DefinitionRequests
    \cup {ListReq("test", "foos"), GetReq("test", "foos", "foo1"),
          CreateReq("test", "foos", FooBody1), CreateReq("test", "foos", BalBody)}
    \cup EachKind("test", "nones")
    \cup EachKind(CorePackage, "unknowns")

\* the requests of the specification of the concurrent patches: foo1 is
\* created, patched by a JSON patch on bal and bar and by a merge patch on
\* bad, read, replaced and deleted
RaceRequests ==
    {ListReq("test", "foos"), GetReq("test", "foos", "foo1"),
     CreateReq("test", "foos", FooBody1),
     ReplaceReq("test", "foos", "foo1", FooBody3),
     JSONPatchReq("test", "foos", "foo1", TestBarPatch),
     MergePatchReq("test", "foos", "foo1", NestedMerge),
     DeleteReq("test", "foos", "foo1")}

\* the requests of the specification of the keys: the resource bar/foo1 of
\* type Foo and the resource foo1 of type Foo/bar
KeyRequests ==
    {CreateReq(CorePackage, RTDPlural, SlashRTDBody),
     MergePatchReq(CorePackage, RTDPlural, "foobars.test", OtherTypeMerge),
     CreateReq("test", "foos", SlashNameBody),
     CreateReq("test", "foobars", FooBody1),
     ListReq("test", "foos"), ListReq("test", "foobars"),
     GetReq("test", "foos", "bar/foo1"), GetReq("test", "foobars", "foo1"),
     ReplaceReq("test", "foobars", "foo1", FooBody3),
     JSONPatchReq("test", "foobars", "foo1", TestPatch),
     MergePatchReq("test", "foobars", "foo1", TestMerge),
     DeleteReq("test", "foos", "bar/foo1"), DeleteReq("test", "foobars", "foo1")}

\* requests are served concurrently, one goroutine each
Next == Tick \/ \E p \in Workers : WorkerStep(p, ConcRequests)

\* the type Foo is registered, then requests on foo1 arrive concurrently
Spec == InitRegistered /\ [][Next]_vars

\* requests arrive one after the other: each is answered before the next starts
FirstWorker == CHOOSE p \in Workers : TRUE
NextSeq == Tick \/ WorkerStep(FirstWorker, SeqRequests)

SpecSeq == Init /\ [][NextSeq]_vars

\* the type Foo is registered, then foo1 is created, patched, replaced and
\* deleted, one request after the other
NextPatch == Tick \/ WorkerStep(FirstWorker, PatchRequests)

SpecPatch == InitRegistered /\ [][NextPatch]_vars

\* the type Bat is registered with two versions, then foo1 is created through
\* either version, replaced, patched and deleted, one request after the other
NextStamp == Tick \/ WorkerStep(FirstWorker, StampRequests)

SpecStamp == Init /\ [][NextStamp]_vars

\* types are defined, redefined, damaged and removed, and requests on them
\* are served, one request after the other
NextTypes == Tick \/ WorkerStep(FirstWorker, TypeRequests)

SpecTypes == Init /\ [][NextTypes]_vars

\* the type Foo is registered, then requests on foo1 are served concurrently
\* within one tick of the clock
NextRace == \E p \in Workers : WorkerStep(p, RaceRequests)

SpecRace == InitRegistered /\ [][NextRace]_vars

\* the scheduler of the runtime lets every goroutine that can take a step take
\* one, and sync.Mutex hands the lock to a goroutine that has waited for it
\* (its starvation mode); no fairness is assumed of the arrival of requests
Fairness ==
    \A p \in Workers :
        /\ WF_vars(WorkerStep(p, {}))
        /\ SF_vars(PutLock(p))
        /\ SF_vars(DelLock(p))

SpecFair == SpecRace /\ Fairness

\* the type Foo is registered, then the type Foo/bar, and resources of both
\* are created, read, replaced, patched and deleted, one request after the
\* other
NextKeys == Tick \/ WorkerStep(FirstWorker, KeyRequests)

SpecKeys == InitRegistered /\ [][NextKeys]_vars

(***************************************************************************)
(* The name-keyed MemRepo of an earlier revision: db maps the name of a    *)
(* genericResource to it.  A caller issues Insert, Get, Replace, Delete    *)
(* and List calls one after the other; each write is an existence check    *)
(* followed by the map write under the lock.                               *)
(***************************************************************************)
\* a genericResource: {"name": n, "bar": bar}
GenericResource(n, bar) == JObj(("name" :> JStr(n)) @@ ("bar" :> JNum(bar)))

\* genericResource.Name
Name(r) == r.v["name"].v

Names == {"foo1", "foo2"}
GenericResources == {GenericResource(n, bar) : n \in Names, bar \in {"1", "4"}}

\* the calls of the caller
RepoCalls ==
    {Request(kind, "", "", "", Name(r), r, <<>>) :
        kind \in {"Insert", "Replace"}, r \in GenericResources}
    \cup {Request(kind, "", "", "", n, JNull, <<>>) : kind \in {"Get", "Delete"}, n \in Names}
    \cup {Request("List", "", "", "", "", JNull, <<>>)}

\* the call is made: the parameter item holds the argument
RepoCall(p, c) ==
    /\ pc[p] = "idle"
    /\ req' = [req EXCEPT ![p] = c]
    /\ item' = [item EXCEPT ![p] = c.body]
    /\ Goto(p, c.kind)
    /\ UNCHANGED <<db, lock, mapWriter, fatal, now, nextUid, rtd, resp>>

\* MemRepo.List
RepoList(p) ==
    /\ pc[p] = "List"
    /\ Reply(p, "nil", NilResource, [null |-> FALSE, elems |-> Values(db)])
    /\ UNCHANGED <<db, lock, mapWriter, fatal, now, nextUid, req>>

\* MemRepo.Insert up to the lock
RepoInsert(p) ==
    /\ pc[p] = "Insert"
    /\ IF Name(item[p]) \in DOMAIN db
       THEN Reply(p, "ResourceExistsError", NilResource, NilItems)
       ELSE Goto(p, "InsertPut") /\ UNCHANGED <<item, resp, rtd>>
    /\ UNCHANGED <<db, lock, mapWriter, fatal, now, nextUid, req>>

\* MemRepo.Insert from the lock: repo.db[itemName] = item
RepoInsertPut(p) ==
    /\ pc[p] = "InsertPut"
    /\ lock = {}
    /\ db' = (Name(req[p].body) :> item[p]) @@ db
    /\ Reply(p, "nil", NilResource, NilItems)
    /\ UNCHANGED <<lock, mapWriter, fatal, now, nextUid, req>>

\* MemRepo.Get
RepoGet(p) ==
    /\ pc[p] = "Get"
    /\ IF req[p].name \in DOMAIN db
       THEN Reply(p, "nil", db[req[p].name], NilItems)
       ELSE Reply(p, "ResourceNotFoundError", NilResource, NilItems)
    /\ UNCHANGED <<db, lock, mapWriter, fatal, now, nextUid, req>>

\* MemRepo.Replace up to the lock: item, ok := repo.db[itemName] assigns the
\* stored resource to the parameter item
RepoReplace(p) ==
    /\ pc[p] = "Replace"
    /\ LET itemName == Name(item[p])
       IN IF itemName \in DOMAIN db
          THEN /\ item' = [item EXCEPT ![p] = db[itemName]]
               /\ Goto(p, "ReplacePut")
               /\ UNCHANGED <<resp, rtd>>
          ELSE Reply(p, "ResourceNotFoundError", NilResource, NilItems)
    /\ UNCHANGED <<db, lock, mapWriter, fatal, now, nextUid, req>>

\* MemRepo.Replace from the lock: repo.db[itemName] = item
RepoReplacePut(p) ==
    /\ pc[p] = "ReplacePut"
    /\ lock = {}
    /\ db' = (Name(req[p].body) :> item[p]) @@ db
    /\ Reply(p, "nil", NilResource, NilItems)
    /\ UNCHANGED <<lock, mapWriter, fatal, now, nextUid, req>>

\* MemRepo.Delete up to the lock
RepoDelete(p) ==
    /\ pc[p] = "Delete"
    /\ IF req[p].name \in DOMAIN db
       THEN Goto(p, "DeletePut") /\ UNCHANGED <<item, resp, rtd>>
       ELSE Reply(p, "ResourceNotFoundError", NilResource, NilItems)
    /\ UNCHANGED <<db, lock, mapWriter, fatal, now, nextUid, req>>

\* MemRepo.Delete from the lock: delete(repo.db, itemName)
RepoDeletePut(p) ==
    /\ pc[p] = "DeletePut"
    /\ lock = {}
    /\ db' = [x \in DOMAIN db \ {req[p].name} |-> db[x]]
    /\ Reply(p, "nil", NilResource, NilItems)
    /\ UNCHANGED <<lock, mapWriter, fatal, now, nextUid, req>>

\* the caller has the result and makes its next call
RepoReturn(p) ==
    /\ pc[p] = "done"
    /\ pc' = [pc EXCEPT ![p] = "idle"]
    /\ req' = [req EXCEPT ![p] = NoRequest]
    /\ resp' = [resp EXCEPT ![p] = NoResponse]
    /\ UNCHANGED <<db, lock, mapWriter, fatal, now, nextUid, rtd, item>>

NextRepo ==
    \/ \E c \in RepoCalls : RepoCall(FirstWorker, c)
    \/ RepoList(FirstWorker)
    \/ RepoInsert(FirstWorker)
    \/ RepoInsertPut(FirstWorker)
    \/ RepoGet(FirstWorker)
    \/ RepoReplace(FirstWorker)
    \/ RepoReplacePut(FirstWorker)
    \/ RepoDelete(FirstWorker)
    \/ RepoDeletePut(FirstWorker)
    \/ RepoReturn(FirstWorker)

\* NewMemRepo, then the calls of one caller
SpecRepo == Init /\ [][NextRepo]_vars

(***************************************************************************)
(* The claims.                                                             *)
(***************************************************************************)
\* the composite key the request of worker p addresses, once its type is resolved
ReqKey(p) == Key(req[p].packageName, rtd[p].resourceType, req[p].name)

\* worker p has answered a request of this kind with this status
Answered(p, kind, status) ==
    pc[p] = "done" /\ req[p].kind = kind /\ resp[p].status = status

PutStages == {"put_lock", "put_begin", "put_end", "put_unlock"}

C1_CreateCheckStep ==
    \A p \in Workers :
        (pc[p] = "create_check" /\ pc'[p] # "create_check") =>
            IF KeyOf(item[p]) \in DOMAIN db
            THEN pc'[p] = "done" /\ resp'[p].status = "409" /\ db' = db
            ELSE pc'[p] = "put_lock"

C1_Inserted ==
    \A p \in Workers :
        Answered(p, "create", "201") =>
            /\ KeyOf(resp[p].item) \in DOMAIN db
            /\ db[KeyOf(resp[p].item)] = resp[p].item

\* C1: requests served one at a time: a create whose composite key is present is
\* answered with the exists error (409) and leaves the store as it is; a create
\* whose key is absent goes on to insert, and once it is answered 201 the store
\* holds its resource under that key.
C1_CreateExists == [][C1_CreateCheckStep]_vars /\ []C1_Inserted

\* C1 witness: a second create of a stored key has been answered 409
C1_Witness ==
    \E p \in Workers :
        /\ Answered(p, "create", "409")
        /\ Key("test", "Foo", "foo1") \in DOMAIN db
        /\ req[p].resourceTypePlural = "foos"

C2_AbsentKeyStep ==
    \A p \in Workers :
        LET k == IF pc[p] = "update_check" THEN KeyOf(item[p]) ELSE ReqKey(p)
        IN (/\ pc[p] \in {"update_check", "delete_check", "get"}
            /\ pc'[p] # pc[p]
            /\ k \notin DOMAIN db)
           => pc'[p] = "done" /\ resp'[p].status = "404" /\ db' = db

\* C2: requests served one at a time: an update, a delete or a get of a key that
\* is not in the store is answered not found (404) and the store is unchanged.
C2_AbsentKeyNotFound == [][C2_AbsentKeyStep]_vars

\* C2 witness: a replace of an absent key has been answered 404, nothing inserted
C2_Witness ==
    \E p \in Workers :
        /\ Answered(p, "replace", "404")
        /\ rtd[p].resourceType = "Foo"
        /\ ReqKey(p) \notin DOMAIN db

\* C3: requests served one at a time: once a replace is answered 200, the store
\* holds under the request's key exactly the resource passed to update, and its
\* properties are those of the request body and no others.
C3_UpdateReplaces ==
    \A p \in Workers :
        Answered(p, "replace", "200") =>
            /\ ReqKey(p) \in DOMAIN db
            /\ db[ReqKey(p)] = resp[p].item
            /\ db[ReqKey(p)].properties = Unmarshal(req[p].body).properties

\* C3 witness: foo1, created with a property bar, has been replaced by a body
\* without bar
C3_Witness ==
    \E p \in Workers :
        /\ Answered(p, "replace", "200")
        /\ req[p].body = FooBody3
        /\ "bar" \notin DOMAIN db[ReqKey(p)].properties

C4_Deleted ==
    \A p \in Workers :
        Answered(p, "delete", "204") =>
            /\ ReqKey(p) \notin DOMAIN db
            /\ \A x \in Values(db) : KeyOf(x) # ReqKey(p)

C4_BackOnlyByCreate ==
    \A k \in DOMAIN db' \ DOMAIN db :
        \E p \in Workers :
            req[p].kind = "create" /\ pc[p] = "put_end" /\ KeyOf(item[p]) = k

\* C4: requests served one at a time: once a delete is answered 204 its key is
\* not in the store and no stored resource has that identity (so get answers not
\* found and list leaves it out), and an absent key comes back only by the
\* insert of a create.
C4_DeleteImmediate == []C4_Deleted /\ [][C4_BackOnlyByCreate]_vars

\* C4 witness: foo1 has been deleted while its type is still registered
C4_Witness ==
    \E p \in Workers :
        /\ Answered(p, "delete", "204")
        /\ req[p].name = "foo1"
        /\ Key(CorePackage, RTDType, "foos.test") \in DOMAIN db

\* the names of the model's resources
AllNames == {"foo1", "foos.test", "defs.test"}

\* C5: requests served one at a time: the items of a list answer are exactly the
\* resources stored under the keys package/resourceType/name of the listed
\* package and type, and the slice is never nil.
C5_ListExact ==
    \A p \in Workers :
        Answered(p, "list", "200") =>
            /\ ~resp[p].items.null
            /\ resp[p].items.elems =
                 {db[ReqKey(p) \o n] : n \in {m \in AllNames : ReqKey(p) \o m \in DOMAIN db}}

\* C5 witness: a list of test/ResourceTypeDefinition answers foo1 alone, while
\* the store holds a resource of the same type in another package and one of
\* another type in the same package
C5_Witness ==
    \E p \in Workers :
        /\ Answered(p, "list", "200")
        /\ req[p].packageName = "test" /\ rtd[p].resourceType = RTDType
        /\ Cardinality(resp[p].items.elems) = 1
        /\ Key(CorePackage, RTDType, "defs.test") \in DOMAIN db
        /\ Key("test", "Foo", "foo1") \in DOMAIN db

\* the resource a create request's body describes
BodyResource(p) ==
    [metadata |-> UnmarshalMetadata(req[p].body.v["metadata"]),
     properties |-> [k \in DOMAIN req[p].body.v \ {"metadata"} |-> req[p].body.v[k]]]

ServerAssigned == {"uid", "createdAt", "updatedAt"}

\* C6 as stated: requests served one at a time: once a create of r is answered
\* 201, the resource stored under its key, which a get returns, is r but for uid,
\* createdAt and updatedAt: every other metadata field r carries and every
\* payload member of r is stored with r's value, and the payload has no other
\* member.
C6_RoundTripAsStated ==
    \A p \in Workers :
        Answered(p, "create", "201") =>
            LET got == Marshal(db[KeyOf(resp[p].item)])
                r == req[p].body
            IN /\ DOMAIN got.v = DOMAIN r.v \cup {"metadata"}
               /\ \A k \in DOMAIN r.v \ {"metadata"} : got.v[k] = r.v[k]
               /\ \A f \in DOMAIN r.v["metadata"].v \ ServerAssigned :
                    got.v["metadata"].v[f] = r.v["metadata"].v[f]

\* C6 amended: requests served one at a time: once a create of r is answered 201,
\* the resource stored under its key has r's name and r's payload with every
\* number as its float64 value, and a get of the key answers that stored
\* resource; its packageName, apiVersion and resourceType are
\* those of the request path and of the resolved definition, whatever r carries.
C6_RoundTrip ==
    \A p \in Workers :
        /\ Answered(p, "get", "200") => resp[p].item = db[ReqKey(p)]
        /\ Answered(p, "create", "201") =>
            LET got == db[KeyOf(resp[p].item)]
                r == BodyResource(p)
            IN /\ got.metadata.name = r.metadata.name
               /\ got.properties = [k \in DOMAIN r.properties |-> DecodeAny(r.properties[k])]
               /\ got.metadata.packageName = req[p].packageName
               /\ got.metadata.apiVersion = req[p].apiVersion
               /\ got.metadata.resourceType = rtd[p].resourceType
               /\ KeyOf(got) = Key(req[p].packageName, rtd[p].resourceType, r.metadata.name)

\* C6 witness: a get answers the resource created from the body that names
\* another package and type and carries a number float64 cannot hold
C6_Witness ==
    \E p \in Workers :
        /\ Answered(p, "get", "200")
        /\ resp[p].item.metadata.packageName = "test"
        /\ resp[p].item.metadata.resourceType = "Foo"
        /\ resp[p].item.properties = ("bar" :> JNum(Float64(BigNum))) @@ ("baz" :> JBool("false"))

CriticalStages == {"put_begin", "put_end", "put_unlock", "del_begin", "del_end", "del_unlock"}

\* C7: at most one worker is between the Lock and the Unlock of put or delete,
\* whatever the keys, and that worker holds the mutex.
C7_MutualExclusion ==
    /\ Cardinality({p \in Workers : pc[p] \in CriticalStages}) <= 1
    /\ \A p \in Workers : pc[p] \in CriticalStages => lock = {p}

\* C7 witness: a put of test/Foo/foo1 is in progress while a delete of
\* core/ResourceTypeDefinition/foos.test waits for the mutex
C7_Witness ==
    \E p, q \in Workers :
        /\ pc[p] = "put_end" /\ KeyOf(item[p]) = Key("test", "Foo", "foo1")
        /\ pc[q] = "del_lock" /\ ReqKey(q) = Key(CorePackage, RTDType, "foos.test")

C8_CreateAfterCheck ==
    \A p \in Workers :
        (req[p].kind = "create" /\ pc[p] \in PutStages /\ pc'[p] # pc[p]) =>
            /\ pc[p] = "put_end" => db'[KeyOf(item[p])] = item[p]
            /\ pc'[p] \notin PutStages => pc'[p] = "done" /\ resp'[p].status = "201"

\* C8: a create that has passed the existence check does not look at the map
\* again: its put stores its item under the key whatever the map holds by then,
\* and the create is answered 201; so two creates that both passed the check
\* both succeed and the later write replaces the earlier.
C8_CheckThenAct == [][C8_CreateAfterCheck]_vars

\* C8 witness: two creates of foo1 have both been answered 201, and the store
\* holds the resource of one of them
C8_Witness ==
    \E p, q \in Workers :
        /\ p # q
        /\ Answered(p, "create", "201") /\ Answered(q, "create", "201")
        /\ KeyOf(resp[p].item) = KeyOf(resp[q].item)
        /\ resp[p].item.metadata.uid # resp[q].item.metadata.uid
        /\ db[KeyOf(resp[p].item)] = resp[p].item

\* C9 as stated: a get answered 200 returns a whole resource: one that some
\* create or update stored, never an entry whose value is not there yet.
C9_GetWholeResource ==
    \A p \in Workers : Answered(p, "get", "200") => ~IsNil(resp[p].item)

\* some operation of the patch does not apply to the document the operations
\* before it produce
RECURSIVE SomeOpFails(_, _)
SomeOpFails(d, ops) ==
    /\ ops # <<>>
    /\ \/ ~OpApplies(d, Head(ops))
       \/ SomeOpFails(ApplyOp(d, Head(ops)), Tail(ops))

C10_PatchStep ==
    \A p \in Workers :
        (req[p].kind = "jsonpatch" /\ pc[p] \in {"resolve", "patch_get", "patch_apply"}
           /\ pc'[p] # pc[p]) =>
            /\ db' = db
            /\ (pc[p] = "patch_apply" /\ SomeOpFails(Original(item[p]), req[p].patch))
                 => pc'[p] = "done" /\ resp'[p].status = "500"

C10_CurrentIsStored ==
    \A p \in Workers : pc[p] = "patch_apply" => db[ReqKey(p)] = item[p]

\* C10: requests served one at a time: a JSON patch request changes nothing in
\* the store before it calls update, the document it patches is the stored
\* resource, and when an operation of the patch fails the request is answered
\* with an error (500) without calling update: the stored resource is as before,
\* also when earlier operations of the patch applied.
C10_PatchAllOrNothing == [][C10_PatchStep]_vars /\ []C10_CurrentIsStored

\* C10 witness: a patch whose first operation applies (baz becomes false) and
\* whose second fails (bal is absent) has been answered 500, and baz is still true
C10_Witness ==
    \E p \in Workers :
        /\ Answered(p, "jsonpatch", "500")
        /\ req[p].patch = RemoveMissingPatch
        /\ rtd[p] # NoRTD
        /\ ReqKey(p) \in DOMAIN db
        /\ db[ReqKey(p)].properties["baz"] = JBool("true")
        /\ "bal" \notin DOMAIN db[ReqKey(p)].properties

PatchKinds == {"jsonpatch", "mergepatch"}

\* the metadata m carries the identity the path of the request of worker p names
PathIdentity(p, m) ==
    /\ m.packageName = req[p].packageName
    /\ m.apiVersion = req[p].apiVersion
    /\ m.resourceType = rtd[p].resourceType
    /\ m.name = req[p].name

C11_PatchStep ==
    \A p \in Workers :
        req[p].kind \in PatchKinds =>
            /\ (pc[p] = "update_check" /\ pc'[p] # pc[p]) =>
                 /\ KeyOf(item[p]) = ReqKey(p)
                 /\ pc'[p] = "put_lock"
            /\ db' # db =>
                 /\ ReqKey(p) \in DOMAIN db
                 /\ DOMAIN db' = DOMAIN db
                 /\ \A k \in DOMAIN db \ {ReqKey(p)} : db'[k] = db[k]
                 /\ PathIdentity(p, db'[ReqKey(p)].metadata)

\* C11: requests served one at a time: a patch (ordered-operation or merge) that
\* applies is committed under the composite key of the request path, whatever it
\* wrote into the metadata: the committed resource carries the path's
\* packageName, apiVersion, resourceType and name, and no entry under any other
\* key is created or changed.
C11_PatchKeepsIdentity == [][C11_PatchStep]_vars

\* C11 witness: a merge patch that writes another name, package, type and
\* version into the metadata has been answered 200, and foo1 is still the only
\* resource of its type
C11_Witness ==
    \E p \in Workers :
        /\ Answered(p, "mergepatch", "200")
        /\ req[p].body = RenameMerge
        /\ PathIdentity(p, db[ReqKey(p)].metadata)
        /\ DOMAIN db = {KeyOf(FooRTD), ReqKey(p)}

\* the members of a document but its metadata, as one object
Payload(doc) == JObj([k \in DOMAIN doc.v \ {"metadata"} |-> doc.v[k]])

\* the object r is target merged with patch by the rule as the claim states it
RECURSIVE MergedAsStated(_, _, _)
MergedAsStated(r, target, patch) ==
    /\ r.t = "obj"
    /\ DOMAIN r.v = (DOMAIN target.v \cup DOMAIN patch.v)
                      \ {k \in DOMAIN patch.v : patch.v[k] = JNull}
    /\ \A k \in DOMAIN r.v :
         IF k \notin DOMAIN patch.v THEN r.v[k] = target.v[k]
         ELSE IF patch.v[k].t = "obj" /\ k \in DOMAIN target.v /\ target.v[k].t = "obj"
         THEN MergedAsStated(r.v[k], target.v[k], patch.v[k])
         ELSE r.v[k] = patch.v[k]

\* the object r is target merged with patch: an object of the patch is merged
\* into the target's object, or into an empty object when the target has none
RECURSIVE Merged(_, _, _)
Merged(r, target, patch) ==
    /\ r.t = "obj"
    /\ DOMAIN r.v = (DOMAIN target.v \cup DOMAIN patch.v)
                      \ {k \in DOMAIN patch.v : patch.v[k] = JNull}
    /\ \A k \in DOMAIN r.v :
         IF k \notin DOMAIN patch.v THEN r.v[k] = target.v[k]
         ELSE IF patch.v[k].t = "obj"
         THEN Merged(r.v[k],
                     IF k \in DOMAIN target.v /\ target.v[k].t = "obj"
                     THEN target.v[k] ELSE JObj(EmptyMap),
                     patch.v[k])
         ELSE r.v[k] = patch.v[k]

C12_StepAsStated ==
    \A p \in Workers :
        (req[p].kind = "mergepatch" /\ pc[p] = "patch_apply" /\ pc'[p] = "update_check") =>
            MergedAsStated(JObj(item'[p].properties), JObj(item[p].properties),
                           Payload(req[p].body))

C12_Step ==
    \A p \in Workers :
        (req[p].kind = "mergepatch" /\ pc[p] = "patch_apply" /\ pc'[p] # pc[p]) =>
            IF req[p].body.t # "obj"
            THEN pc'[p] = "done" /\ resp'[p].status = "500"
            ELSE pc'[p] = "update_check" =>
                   Merged(JObj(item'[p].properties), JObj(item[p].properties),
                          Payload(req[p].body))

SameButUpdatedAt(a, b) ==
    [a EXCEPT !.metadata.updatedAt = 0] = [b EXCEPT !.metadata.updatedAt = 0]

\* the resource the merge patch request of worker p passes to update when the
\* stored resource is cur and the clock reads t
MergeRequestOn(p, cur, t) ==
    LET res == JSONMergePatch(cur, req[p].body)
    IN [res.item EXCEPT !.metadata = UpdateStamp(@, req[p], rtd[p], t)]

C13_Step ==
    \A p \in Workers :
        (req[p].kind = "mergepatch" /\ pc[p] = "patch_apply" /\ pc'[p] = "update_check") =>
            /\ item'[p] = MergeRequestOn(p, item[p], now)
            /\ \A t \in now..MaxTime :
                 /\ JSONMergePatch(item'[p], req[p].body).ok
                 /\ SameButUpdatedAt(MergeRequestOn(p, item'[p], t), item'[p])

RECURSIVE DocAfter(_, _, _)
DocAfter(d, ops, n) == IF n = 0 THEN d ELSE ApplyOp(DocAfter(d, ops, n - 1), ops[n])

C14_Step ==
    \A p \in Workers :
        (req[p].kind = "jsonpatch" /\ pc[p] = "patch_apply" /\ pc'[p] # pc[p]
           /\ ~SomeOpFails(Original(item[p]), req[p].patch)) =>
            LET last == DocAfter(Original(item[p]), req[p].patch, Len(req[p].patch))
            IN IF UnmarshalOk(last)
               THEN /\ pc'[p] = "update_check"
                    /\ item'[p].properties = Unmarshal(last).properties
                    /\ item'[p].metadata.uid = Unmarshal(last).metadata.uid
                    /\ item'[p].metadata.createdAt = Unmarshal(last).metadata.createdAt
               ELSE pc'[p] = "done" /\ resp'[p].status = "500"

C14_Committed ==
    \A p \in Workers :
        Answered(p, "jsonpatch", "200") =>
            db[ReqKey(p)] = resp[p].item

\* C14: requests served one at a time: when each operation of an
\* ordered-operation patch applies to the document its predecessors left, the
\* resource passed to update is the stored resource after the last operation
\* (an operation may address a path an earlier one created), and the resource
\* answered with 200 is the one stored.
C14_PatchInOrder == [][C14_Step]_vars /\ []C14_Committed

\* C14 witness: the test's patch has been answered 200: bad, which its first
\* operation creates, holds the bag that its second operation adds to it
C14_Witness ==
    \E p \in Workers :
        /\ Answered(p, "jsonpatch", "200")
        /\ req[p].patch = TestPatch
        /\ db[ReqKey(p)].properties =
             ("bad" :> JObj("bag" :> JStr("wiz"))) @@ ("bar" :> JNum("4"))

C15_Step ==
    \A k \in DOMAIN db \cap DOMAIN db' :
        db'[k].metadata.uid = db[k].metadata.uid

\* C15 as stated: requests served one at a time: from the create of a key to
\* its delete, no replace and no patch changes the uid stored under the key,
\* whatever uid its body carries or omits.
C15_UidImmutable == [][C15_Step]_vars

C16_Step ==
    \A k \in DOMAIN db \cap DOMAIN db' :
        db'[k].metadata.updatedAt >= db[k].metadata.updatedAt

\* C16 as stated: for every key, the updatedAt of the stored resource never
\* decreases from one committed state to the next, for any interleaving of
\* concurrent create, replace and patch requests.
C16_UpdatedAtMonotonic == [][C16_Step]_vars

\* the body of the create of worker p decodes into a resource with a name
NamedBody(p) == UnmarshalOk(req[p].body) /\ Unmarshal(req[p].body).metadata.name # ""

C17_Step ==
    \A p \in Workers :
        (pc[p] = "create_prepare" /\ pc'[p] # pc[p] /\ NamedBody(p)
           /\ rtd[p].versions # <<>>) =>
            IF Validate(rtd[p].versions[1], Unmarshal(req[p].body).properties)
            THEN pc'[p] = "create_check"
            ELSE pc'[p] = "done" /\ resp'[p].status = "400" /\ db' = db

C17_Stored ==
    \A p \in Workers :
        (req[p].kind = "create" /\ pc[p] = "done" /\ NamedBody(p) /\ rtd[p].versions # <<>>
           /\ ~Validate(rtd[p].versions[1], Unmarshal(req[p].body).properties))
          => resp[p].status = "400"

\* C17: requests served one at a time: a create with a named body is validated
\* against the schema of versions[0] of the resolved definition: when the payload
\* is invalid for it the create is answered 400 and the store is unchanged; when
\* it is valid the create goes on to the repository, whatever the schemas of
\* later versions say and whatever apiVersion the request names.
C17_FirstVersionOnly == [][C17_Step]_vars /\ []C17_Stored

\* C17 witness: a create through v2 of a payload that is valid for v1 and
\* invalid for v2 has been answered 201
C17_Witness ==
    \E p \in Workers :
        /\ Answered(p, "create", "201")
        /\ req[p].apiVersion = "v2"
        /\ Len(rtd[p].versions) = 2
        /\ Validate(rtd[p].versions[1], resp[p].item.properties)
        /\ ~Validate(rtd[p].versions[2], resp[p].item.properties)
        /\ db[KeyOf(resp[p].item)] = resp[p].item

C18_Step ==
    \A p \in Workers :
        (pc[p] = "create_prepare" /\ pc'[p] # pc[p] /\ UnmarshalOk(req[p].body)
           /\ Unmarshal(req[p].body).metadata.name = "") =>
            /\ pc'[p] = "done" /\ resp'[p].status = "400"
            /\ db' = db /\ nextUid' = nextUid

\* C18: requests served one at a time: a create whose body carries an empty
\* name, or none, is answered 400 at once, whether its payload is valid or
\* not: no uid is assigned, the repository is not called and the store is
\* unchanged.
C18_NameRequired == [][C18_Step]_vars

\* C18 witness: creates of a valid payload without a name have been answered
\* 400 while the type is registered and foo1 is not stored
C18_Witness ==
    \E p \in Workers :
        /\ Answered(p, "create", "400")
        /\ req[p].body = EmptyNameBody
        /\ Validate(rtd[p].versions[1], Unmarshal(req[p].body).properties)
        /\ DOMAIN db = {Key(CorePackage, RTDType, "bats.test")}

C19_Step ==
    \A p \in Workers :
        (pc[p] = "create_prepare" /\ pc'[p] = "create_check") =>
            LET m == item'[p].metadata
            IN /\ m.uid = UidStr(nextUid) /\ nextUid' = nextUid + 1
               /\ \A n \in 1..(nextUid - 1) : m.uid # UidStr(n)
               /\ \A k \in DOMAIN db : m.uid # db[k].metadata.uid
               /\ m.createdAt = now /\ m.updatedAt = now
               /\ m.packageName = req[p].packageName
               /\ m.apiVersion = req[p].apiVersion
               /\ m.resourceType = rtd[p].resourceType
               /\ m.name = Unmarshal(req[p].body).metadata.name

C19_Stored ==
    \A p \in Workers :
        Answered(p, "create", "201") =>
            LET m == db[KeyOf(resp[p].item)].metadata
            IN /\ db[KeyOf(resp[p].item)] = resp[p].item
               /\ m.createdAt = m.updatedAt
               /\ m.packageName = req[p].packageName
               /\ m.apiVersion = req[p].apiVersion
               /\ m.resourceType = rtd[p].resourceType
               /\ \A k \in DOMAIN db \ {KeyOf(resp[p].item)} : db[k].metadata.uid # m.uid

\* C19: requests served one at a time: a create that passes validation stamps
\* the resource with the next uid, which no earlier create was given and no
\* stored resource carries, with createdAt = updatedAt = now, and with the
\* path's packageName and apiVersion and the resolved definition's type,
\* whatever the body carried; once answered 201 the store holds it so.
C19_CreateStamps == [][C19_Step]_vars /\ []C19_Stored

\* C19 witness: a create through v2 of the body that carries package "other",
\* type "Bar" and uid "mine" has been answered 201 and is stored as test/Bat
\* with the third uid assigned
C19_Witness ==
    \E p \in Workers :
        /\ Answered(p, "create", "201")
        /\ req[p].body = FooBody2 /\ req[p].apiVersion = "v2"
        /\ Key("test", "Bat", "foo1") \in DOMAIN db
        /\ db[Key("test", "Bat", "foo1")].metadata.uid = UidStr(3)
        /\ db[Key("test", "Bat", "foo1")].metadata.apiVersion = "v2"

C20_Step ==
    \A p \in Workers :
        req[p].kind = "replace" =>
            /\ (pc[p] = "replace_prepare" /\ pc'[p] = "update_check") =>
                 /\ PathIdentity(p, item'[p].metadata)
                 /\ KeyOf(item'[p]) = ReqKey(p)
            /\ (pc[p] = "replace_prepare" /\ pc'[p] # pc[p] /\ UnmarshalOk(req[p].body)) =>
                 pc'[p] = "update_check"
            /\ (pc[p] = "update_check" /\ pc'[p] # pc[p] /\ ReqKey(p) \in DOMAIN db) =>
                 pc'[p] = "put_lock"
            /\ db' # db =>
                 /\ DOMAIN db' = DOMAIN db
                 /\ \A k \in DOMAIN db \ {ReqKey(p)} : db'[k] = db[k]
                 /\ PathIdentity(p, db'[ReqKey(p)].metadata)
                 /\ db'[ReqKey(p)].properties = Unmarshal(req[p].body).properties

\* C20: requests served one at a time: a replace whose body decodes is passed to
\* update with the packageName, apiVersion, type and name of the request path,
\* whatever identity the body carries, also another name or none; when the
\* path's key is stored, the replacement is committed under that key and under
\* no other.
C20_ReplaceStamps == [][C20_Step]_vars

\* C20 witness: a replace of foo1 by a body that names foo2 of another package,
\* type and version has been answered 200: foo1 holds the body's payload under
\* the path's identity, and no other resource of the type exists
C20_Witness ==
    \E p \in Workers :
        /\ Answered(p, "replace", "200")
        /\ req[p].body = RenamedBody
        /\ PathIdentity(p, db[ReqKey(p)].metadata)
        /\ db[ReqKey(p)].properties = ("baz" :> JBool("false"))
        /\ DOMAIN db = {Key(CorePackage, RTDType, "bats.test"), ReqKey(p)}

\* the schema create validates against does not accept the payload
Rejected(p, properties) ==
    rtd[p].versions # <<>> /\ ~Validate(rtd[p].versions[1], properties)

C21_Step ==
    \A p \in Workers :
        /\ (req[p].kind = "replace" /\ pc[p] = "replace_prepare" /\ pc'[p] # pc[p]
              /\ UnmarshalOk(req[p].body)
              /\ Rejected(p, Unmarshal(req[p].body).properties))
             => pc'[p] = "update_check"
        /\ (req[p].kind = "jsonpatch" /\ pc[p] = "patch_apply" /\ pc'[p] # pc[p]
              /\ JSONPatch(item[p], req[p].patch).ok
              /\ Rejected(p, JSONPatch(item[p], req[p].patch).item.properties))
             => pc'[p] = "update_check"
        /\ (req[p].kind = "mergepatch" /\ pc[p] = "patch_apply" /\ pc'[p] # pc[p]
              /\ JSONMergePatch(item[p], req[p].body).ok
              /\ Rejected(p, JSONMergePatch(item[p], req[p].body).item.properties))
             => pc'[p] = "update_check"
        /\ (req[p].kind \in {"replace", "jsonpatch", "mergepatch"}
              /\ pc[p] = "put_end" /\ pc'[p] # pc[p])
             => db'[ReqKey(p)] = item[p]

C21_Answered ==
    \A p \in Workers :
        (\E kind \in {"replace", "jsonpatch", "mergepatch"} : Answered(p, kind, "200"))
          => /\ ReqKey(p) \in DOMAIN db
             /\ db[ReqKey(p)] = resp[p].item

\* C21: requests served one at a time: a replacement, or the result of a patch,
\* that the schema of the resolved type rejects is passed to update like any
\* other, committed, and answered 200 with the stored resource.
C21_NoValidation == [][C21_Step]_vars /\ []C21_Answered

\* C21 witness: a replace by a payload without the required baz has been
\* answered 200 and is stored
C21_Witness ==
    \E p \in Workers :
        /\ Answered(p, "replace", "200")
        /\ req[p].body = BalBody
        /\ Rejected(p, db[ReqKey(p)].properties)
        /\ db[ReqKey(p)].properties = ("bal" :> JStr("x"))

\* the key under which the definition of the type a request names is stored
DefinitionKey(r) ==
    "core/ResourceTypeDefinition/" \o r.resourceTypePlural \o "." \o r.packageName

\* a stored definition resolve can interpret
WellFormed(d) == ~IsNil(d) /\ AssertionsOk(d) /\ VersionsOk(d)

\* worker p takes the step that resolves the type of its request
Resolves(p) == pc[p] = "resolve" /\ pc'[p] # pc[p]

\* that step fails: the request is answered, and not with a success
ResolveFails(p) ==
    /\ pc'[p] = "done"
    /\ resp'[p].status \notin {"200", "201", "204"}
    /\ rtd'[p] = NoRTD

C22_Step ==
    \A p \in Workers :
        (Resolves(p) /\ req[p].packageName # "core") =>
            LET k == DefinitionKey(req[p])
            IN IF k \in DOMAIN db /\ WellFormed(db[k])
               THEN /\ pc'[p] = AfterResolve(req[p].kind)
                    /\ rtd'[p].resourceType = db[k].properties["resourceType"].v
                    /\ Len(rtd'[p].versions) = Len(db[k].properties["versions"].v)
                    /\ \A i \in DOMAIN rtd'[p].versions :
                         rtd'[p].versions[i] =
                             db[k].properties["versions"].v[i].v["schema"]
               ELSE ResolveFails(p)

\* C22: requests served one at a time: for a package other than core, resolve
\* reads the entry core/ResourceTypeDefinition/<plural>.<package>; it succeeds
\* exactly when a well-formed resource is stored there, and then returns the
\* resourceType and the version schemas of that resource.
C22_ResolveReadsStore == [][C22_Step]_vars

\* C22 witness: the definition of Foo was created by a request, and a later
\* request on test/foos has resolved to its type and schema
C22_Witness ==
    \E p \in Workers :
        /\ req[p].packageName = "test" /\ req[p].resourceTypePlural = "foos"
        /\ pc[p] = AfterResolve(req[p].kind)
        /\ DefinitionKey(req[p]) \in DOMAIN db
        /\ db[DefinitionKey(req[p])].metadata.uid = UidStr(1)
        /\ rtd[p].resourceType = "Foo"
        /\ rtd[p].versions = << FooSchema >>

\* no definition exists for the type the request of worker p names
NoDefinition(p) ==
    IF req[p].packageName = "core"
    THEN req[p].resourceTypePlural # "resourcetypedefinitions"
    ELSE DefinitionKey(req[p]) \notin DOMAIN db

\* C23: for every (package, plural) that has no definition, in package core as
\* in any other, resolve fails with the typed not-found error: the list
\* handler, which looks for that type, answers 404.
C23_TypedNotFound ==
    [][\A p \in Workers :
         (Resolves(p) /\ req[p].kind = "list" /\ NoDefinition(p))
            => (pc'[p] = "done" /\ resp'[p].status = "404")]_vars

\* C24: a request of any kind that names an unregistered type is answered
\* with a not-found failure, and leaves the store unchanged.
C24_UnregisteredNotFound ==
    [][\A p \in Workers :
         (Resolves(p) /\ NoDefinition(p))
            => (pc'[p] = "done" /\ resp'[p].status = "404" /\ db' = db)]_vars

\* C25: a stored type definition with a malformed payload makes resolve
\* return a failure to its caller, which answers the request with an error
\* status: resolve never panics on such a payload.
C25_MalformedIsAFailure ==
    [][\A p \in Workers :
         (/\ Resolves(p)
          /\ req[p].packageName # "core"
          /\ DefinitionKey(req[p]) \in DOMAIN db
          /\ ~WellFormed(db[DefinitionKey(req[p])]))
            => (pc'[p] = "done" /\ resp'[p].status \in {"400", "404", "500"})]_vars

C26_Step ==
    \A p \in Workers :
        (/\ Resolves(p)
         /\ req[p].packageName = "core"
         /\ req[p].resourceTypePlural = "resourcetypedefinitions")
          => /\ pc'[p] = AfterResolve(req[p].kind)
             /\ rtd'[p].package = "core"
             /\ rtd'[p].resourceType = "ResourceTypeDefinition"
             /\ rtd'[p].versions =
                  << JObj(("type" :> JStr("object")) @@ ("properties" :> JObj(EmptyMap))) >>
             /\ db' = db

\* C26: resolve("core", "resourcetypedefinitions") succeeds in every reachable
\* state and returns the same built-in definition, whatever has been created,
\* replaced, patched or deleted, resources of core/ResourceTypeDefinition
\* included.
C26_BuiltinFixed == [][C26_Step]_vars

\* C26 witness: a definition is stored under the name
\* resourcetypedefinitions.core, none is stored for Foo, and a request on
\* core/resourcetypedefinitions has resolved to the built-in one
C26_Witness ==
    \E p \in Workers :
        /\ req[p].packageName = "core"
        /\ req[p].resourceTypePlural = "resourcetypedefinitions"
        /\ pc[p] = AfterResolve(req[p].kind)
        /\ rtd[p].resourceType = "ResourceTypeDefinition"
        /\ Key("core", "ResourceTypeDefinition", "resourcetypedefinitions.core") \in DOMAIN db
        /\ Key("core", "ResourceTypeDefinition", "foos.test") \notin DOMAIN db

\* the stages of a handler past the resolution of the type
Serving == {"list", "create_prepare", "create_check", "get", "replace_prepare",
            "update_check", "patch_get", "patch_apply", "delete_check"}

\* the resource types and schemas of the definition stored under key k now
StoredType(k) == db[k].properties["resourceType"].v
StoredSchemas(k) ==
    [i \in DOMAIN db[k].properties["versions"].v |->
        db[k].properties["versions"].v[i].v["schema"]]

C27_Fresh ==
    \A p \in Workers :
        (pc[p] \in Serving /\ req[p].packageName # "core") =>
            LET k == DefinitionKey(req[p])
            IN /\ k \in DOMAIN db
               /\ WellFormed(db[k])
               /\ rtd[p].resourceType = StoredType(k)
               /\ rtd[p].versions = StoredSchemas(k)

C27_Step ==
    \A p \in Workers :
        /\ (Resolves(p) /\ NoDefinition(p)) => pc'[p] = "done"
        /\ (pc[p] = "create_prepare" /\ pc'[p] = "create_check"
              /\ req[p].packageName # "core")
             => Validate(StoredSchemas(DefinitionKey(req[p]))[1], item'[p].properties)

Addressed(p) == req[p].packageName \o "/" \o rtd[p].resourceType \o "/" \o req[p].name

\* worker p finds the resource it addresses and goes on to the stage next, or
\* answers 404
FoundOr404(p, next) ==
    IF Addressed(p) \in DOMAIN db
    THEN pc'[p] = next
    ELSE pc'[p] = "done" /\ resp'[p].status = "404"

C28_Step ==
    \A p \in Workers :
        pc'[p] # pc[p] =>
            /\ pc[p] = "get" =>
                 /\ pc'[p] = "done"
                 /\ IF Addressed(p) \in DOMAIN db
                    THEN resp'[p].status = "200" /\ resp'[p].item = db[Addressed(p)]
                    ELSE resp'[p].status = "404"
            /\ pc[p] = "list" =>
                 /\ resp'[p].status = "200"
                 /\ resp'[p].items.elems =
                      {x \in Values(db) : /\ x.metadata.packageName = req[p].packageName
                                          /\ x.metadata.resourceType = rtd[p].resourceType}
            /\ pc[p] = "patch_get" => FoundOr404(p, "patch_apply")
            /\ (pc[p] = "update_check" /\ req[p].kind # "create") => FoundOr404(p, "put_lock")
            /\ pc[p] = "delete_check" => FoundOr404(p, "del_lock")
            /\ (pc[p] = "put_end" /\ req[p].kind # "create") =>
                 /\ DOMAIN db' = DOMAIN db
                 /\ \A k \in DOMAIN db \ {Addressed(p)} : db'[k] = db[k]
            /\ pc[p] = "del_end" => DOMAIN db' = DOMAIN db \ {Addressed(p)}

\* C28: requests served one at a time: for get, list, replace, patch and
\* delete, the resource addressed and the success or failure of the request
\* are determined by the package, the resolved type and the name, whatever the
\* apiVersion of the request and of the stored resource.
C28_VersionAdvisory == [][C28_Step]_vars

\* C28 witness: a get through v2 has returned a resource stored through v1
C28_Witness ==
    \E p \in Workers :
        /\ Answered(p, "get", "200")
        /\ req[p].apiVersion = "v2"
        /\ resp[p].item.metadata.apiVersion = "v1"
        /\ db[Key("test", "Bat", "foo1")] = resp[p].item

\* the stages at which a handler reads the map without holding the lock
ReadStages == {"resolve", "list", "get", "create_check", "update_check",
               "patch_get", "delete_check"}

\* C29: no interleaving of concurrent requests is fatal to the process: an
\* unlocked read of the map never meets a map write in progress.
C29_NeverFatal ==
    /\ []~fatal
    /\ [][\A p \in Workers :
            (/\ pc[p] \in ReadStages
             /\ pc'[p] # pc[p]
             /\ ~(pc[p] = "resolve" /\ req[p].packageName = "core"))
               => mapWriter = {}]_vars

\* C30: update never inserts a key, under concurrency as well: the map write
\* of a replace or a patch finds its key present, also when a delete of the
\* same key ran after its existence check.
C30_UpdateNeverInserts ==
    [][\A p \in Workers :
         (pc[p] = "put_end" /\ pc'[p] # pc[p] /\ req[p].kind # "create")
            => DOMAIN db' = DOMAIN db]_vars

\* the JSON patch on bal and bar and the merge patch on bad have both been
\* answered 200 for the same resource, which is still stored
BothPatched(p, q) ==
    /\ Answered(p, "jsonpatch", "200")
    /\ Answered(q, "mergepatch", "200")
    /\ resp[p].item.metadata.uid = resp[q].item.metadata.uid
    /\ Key("test", "Foo", "foo1") \in DOMAIN db
    /\ db[Key("test", "Foo", "foo1")].metadata.uid = resp[p].item.metadata.uid

\* C31: no update is lost between patches: when a JSON patch and a merge patch
\* that modify disjoint members of the same resource have both succeeded, the
\* stored payload carries the modifications of both.
C31_NoLostUpdate ==
    \A p, q \in Workers :
        BothPatched(p, q) =>
            LET stored == db[Key("test", "Foo", "foo1")].properties
            IN /\ "bal" \in DOMAIN stored /\ stored["bal"] = JStr("y")
               /\ "bar" \notin DOMAIN stored
               /\ "bad" \in DOMAIN stored
               /\ stored["bad"] = JObj("bat" :> JStr("x"))

\* worker p is inside a call of the repository or of its handler
InCall(p) == pc[p] \notin {"idle", "done"}

\* the stages between repo.Lock() and repo.Unlock() in put and delete
LockedStages == {"put_begin", "put_end", "put_unlock", "del_begin", "del_end", "del_unlock"}

\* whenever no call is inside put or delete the lock is free
LockFreeWhenUnused ==
    (\A p \in Workers : pc[p] \notin LockedStages) => lock = {}

\* C32: under fair scheduling every call eventually returns, and whenever no
\* call is inside put or delete the lock is free.
C32_Terminates ==
    /\ \A p \in Workers : InCall(p) ~> ~InCall(p)
    /\ []LockFreeWhenUnused

\* C33: in every reachable state each entry of the map is stored under the key
\* packageName/resourceType/name built from the metadata of the resource it
\* holds.
C33_KeyIsIdentity ==
    \A k \in DOMAIN db :
        /\ ~IsNil(db[k])
        /\ k = db[k].metadata.packageName \o "/" \o db[k].metadata.resourceType
                 \o "/" \o db[k].metadata.name

\* C33 witness: the definition of Bat, whose body names package test and type
\* Bat, and a resource replaced by a body that names other/Foo/foo2 are both
\* stored
C33_Witness ==
    \E p \in Workers :
        /\ Answered(p, "replace", "200")
        /\ req[p].body = RenamedBody
        /\ DOMAIN db = {"core/ResourceTypeDefinition/bats.test", "test/Bat/foo1"}
        /\ db["test/Bat/foo1"] = resp[p].item

\* the map changes at key k at most: every other key is kept with its resource
OnlyAt(k) ==
    /\ DOMAIN db \ {k} = DOMAIN db' \ {k}
    /\ \A x \in DOMAIN db \ {k} : db'[x] = db[x]

C34_Step ==
    /\ db' # db =>
         \E p \in Workers :
             /\ pc'[p] # pc[p]
             /\ \/ /\ pc[p] = "put_end"
                   /\ req[p].kind \in {"create", "replace", "jsonpatch", "mergepatch"}
                   /\ OnlyAt(Key(req[p].packageName, rtd[p].resourceType,
                                 item[p].metadata.name))
                   /\ DOMAIN db \subseteq DOMAIN db'
                \/ /\ pc[p] = "del_end"
                   /\ req[p].kind = "delete"
                   /\ OnlyAt(Key(req[p].packageName, rtd[p].resourceType, req[p].name))
                   /\ pc'[p] = "del_unlock"
    /\ \A p \in Workers :
         (pc[p] = "del_unlock" /\ pc'[p] # pc[p]) => resp'[p].status = "204"

\* C34: a create, update or delete on key K changes the entry at K only; a
\* stored resource is removed only by a successful delete of its own key, and
\* get, list and resolve never change the store.
C34_Frame == [][C34_Step]_vars

\* C34 witness: foo1 of type Foo has been deleted while its type definition
\* and the resource foo1 of type test/ResourceTypeDefinition stay stored
C34_Witness ==
    \E p \in Workers :
        /\ Answered(p, "delete", "204")
        /\ req[p].resourceTypePlural = "foos"
        /\ DOMAIN db = {"core/ResourceTypeDefinition/foos.test",
                        "core/ResourceTypeDefinition/defs.test",
                        "test/ResourceTypeDefinition/foo1"}

\* C35: a create for a type whose stored definition resolves with an empty
\* list of versions is answered with an error status, not aborted by an
\* out-of-range access to versions[0], and the store is unchanged.
C35_EmptyVersionsIsAFailure ==
    [][\A p \in Workers :
         (/\ pc[p] = "create_prepare"
          /\ pc'[p] # pc[p]
          /\ rtd[p].versions = << >>)
            => (/\ pc'[p] = "done"
                /\ resp'[p].status \in {"400", "404", "500"}
                /\ db' = db)]_vars

C36_Step ==
    \A k \in DOMAIN db \cap DOMAIN db' :
        db'[k].metadata.createdAt = db[k].metadata.createdAt

C36_Ordered ==
    \A k \in DOMAIN db : db[k].metadata.createdAt <= db[k].metadata.updatedAt

\* C36: requests served one at a time: from the create of a key to its delete
\* no replace and no patch changes the createdAt stored under the key, and
\* createdAt is never later than updatedAt.
C36_CreatedAtPreserved == [][C36_Step]_vars /\ []C36_Ordered

\* the identity of a resource: its package, type and name
Triple(m) == << m.packageName, m.resourceType, m.name >>

C37_Step ==
    \A p \in Workers :
        /\ (pc[p] = "create_check" /\ pc'[p] = "done" /\ resp'[p].status = "409")
             => \E k \in DOMAIN db : Triple(db[k].metadata) = Triple(item[p].metadata)
        /\ (pc[p] = "put_end" /\ pc'[p] # pc[p])
             => \A k \in DOMAIN db \cap DOMAIN db' :
                    db'[k] # db[k] => Triple(db[k].metadata) = Triple(item[p].metadata)
        /\ (pc[p] = "del_end" /\ pc'[p] # pc[p])
             => \A k \in DOMAIN db \ DOMAIN db' :
                    Triple(db[k].metadata)
                      = << req[p].packageName, rtd[p].resourceType, req[p].name >>

\* C37: the composite key is injective: a create reports ExistsError only
\* because of a resource with its own (packageName, resourceType, name), and an
\* update or a delete touches only the resource with that triple, also when a
\* component contains "/".
C37_KeyInjective == [][C37_Step]_vars

\* C38: whenever resolve returns a stored definition, the package of its
\* payload is the requested package and its plural is the requested plural
\* token.
C38_ResolvedIsRequested ==
    [][\A p \in Workers :
         (/\ Resolves(p)
          /\ req[p].packageName # "core"
          /\ pc'[p] = AfterResolve(req[p].kind))
            => (/\ rtd'[p].package = req[p].packageName
                /\ rtd'[p].plural = req[p].resourceTypePlural)]_vars

\* worker p is about to remove a type definition from the map
DeletesDefinition(p) ==
    /\ pc[p] = "del_end" /\ pc'[p] # pc[p]
    /\ req[p].packageName = "core"
    /\ req[p].resourceTypePlural = "resourcetypedefinitions"

C39_Step ==
    \A p \in Workers :
        /\ DeletesDefinition(p) =>
             \A k \in DOMAIN db :
                 k # "core/ResourceTypeDefinition/" \o req[p].name
                   => (k \in DOMAIN db' /\ db'[k] = db[k])
        /\ (Resolves(p) /\ NoDefinition(p)) => (ResolveFails(p) /\ db' = db)
        /\ (pc[p] = "get" /\ pc'[p] # pc[p] /\ Addressed(p) \in DOMAIN db)
             => (resp'[p].status = "200" /\ resp'[p].item = db[Addressed(p)])
        /\ (pc[p] = "list" /\ pc'[p] # pc[p])
             => resp'[p].items.elems =
                  {x \in Values(db) : /\ x.metadata.packageName = req[p].packageName
                                      /\ x.metadata.resourceType = rtd[p].resourceType}

\* C39: requests served one at a time: deleting a type definition leaves the
\* resources of the type in the repository; while the definition is absent
\* every request for the type fails at resolution, and once it is created
\* again get and list return the resources that were stored.
C39_ResourcesOutliveType == [][C39_Step]_vars

\* C39 witness: foo1 was created under the first definition of Foo; that
\* definition was deleted and created again, and a get returns foo1 as it was
\* stored
C39_Witness ==
    \E p \in Workers :
        /\ Answered(p, "get", "200")
        /\ req[p].resourceTypePlural = "foos"
        /\ resp[p].item.metadata.uid = UidStr(2)
        /\ "core/ResourceTypeDefinition/foos.test" \in DOMAIN db
        /\ db["core/ResourceTypeDefinition/foos.test"].metadata.uid = UidStr(3)
        /\ db["test/Foo/foo1"] = resp[p].item

C40_Step ==
    \A p \in Workers :
        (pc[p] = "ReplacePut" /\ pc'[p] = "done" /\ resp'[p].status = "nil")
          => /\ Name(req[p].body) \in DOMAIN db'
             /\ db'[Name(req[p].body)] = req[p].body

\* the Get that follows a successful Replace returns the item it was given
C40_GetAfterReplace ==
    \A p \in Workers :
        (pc[p] = "done" /\ req[p].kind = "Replace" /\ resp[p].status = "nil")
          => db[Name(req[p].body)] = req[p].body

\* C40: in the name-keyed MemRepo a successful Replace of an existing name
\* stores the item that was passed in, so that a Get of the name right after
\* returns it.
C40_ReplaceStores == [][C40_Step]_vars /\ []C40_GetAfterReplace

====
